---- MODULE Spec2Model ----
(***************************************************************************)
(* A model of the conversational agent loop of routers/agent.py: the       *)
(* in-memory thread store, the per-request handler agent_chat with its     *)
(* tool-calling loop, and the helpers it calls.                            *)
(*                                                                         *)
(* Python dicts are records whose DOMAIN is the set of keys, lists are     *)
(* sequences, None / "" (both falsy) is the empty tuple NoText.  A text is *)
(* a pair <<turn, round>>: the prompt of turn t is <<t, 0>>, the text the  *)
(* hosted model produces in round r of turn t is <<t, r>>.                 *)
(***************************************************************************)
EXTENDS Integers, Sequences, FiniteSets, TLC

\* ------------------------------------------------------------------ bounds
\* Thread ids a client may supply and generate_thread_id may return.
MaxThreads == 2
\* Requests that may be in the server at the same time.
MaxRequests == 2
\* Tool calls in one reply of the hosted model.
MaxToolCalls == 2
\* Requests served in the conversation workload.
MaxTurns == 2
\* Leading rounds of the tools workload whose replies and tool outcomes are
\* arbitrary.
MaxVariedRounds == 1
\* Tool-calling replies of the narration workload that carry a text.
MaxTexts == 2

\* ------------------------------------------------------- program constants
max_iterations == 10
max_messages == 20

ThreadIds == 1..MaxThreads
Requests == 1..MaxRequests
None == 0
NoText == <<>>
SystemPrompt == <<0, 1>>
GenericFailure == <<0, 0>>

Truthy(text) == text # NoText

\* ---------------------------------------------------------------- messages
system_message == [role |-> "system", content |-> [text |-> SystemPrompt]]

UserMessage(prompt) == [role |-> "user", content |-> [text |-> prompt]]

\* msg.get("tool_calls"): the key is absent from a message without tool calls.
GetToolCalls(msg) == IF "tool_calls" \in DOMAIN msg THEN msg.tool_calls ELSE <<>>

\* msg.get("content") of a text message; a tool message's content is a JSON text.
GetText(msg) == IF "text" \in DOMAIN msg.content THEN msg.content.text ELSE NoText

\* s[:n] of Python: the oldest n elements.
SliceFirst(s, n) == IF n >= Len(s) THEN s ELSE SubSeq(s, 1, n)

\* s[-n:] of Python: the whole list when n = 0.
SliceLast(s, n) ==
    IF n = 0 \/ n >= Len(s) THEN s ELSE SubSeq(s, Len(s) - n + 1, Len(s))

trim_conversation_history(msgs, n) ==
    IF Len(msgs) <= n
    THEN msgs
    ELSE LET system_msgs == SelectSeq(msgs, LAMBDA m : m.role = "system")
             non_system_msgs == SelectSeq(msgs, LAMBDA m : m.role # "system")
             trimmed_non_system ==
                 IF Len(non_system_msgs) > n
                 THEN SliceLast(non_system_msgs, n)
                 ELSE non_system_msgs
         IN system_msgs \o trimmed_non_system

\* A store that is replaced by one with the new thread alone.
get_or_create_thread_Replacing(threads, tid) ==
    IF tid \in DOMAIN threads THEN threads ELSE (tid :> <<>>)

get_or_create_thread(threads, tid) ==
    IF tid \in DOMAIN threads THEN threads ELSE (tid :> <<>>) @@ threads

\* ------------------------------------------------------------ tool calling
\* One representative of each branch of execute_function_call.
\* The forms of a tool call's arguments text: "valid" is a JSON object with
\* the keys the function needs, "empty" a JSON object without them, "not_json"
\* text that is no JSON, and "not_object" JSON that is no object.
OfferedCalls ==
    { <<"list_restaurants", "valid">>, <<"list_restaurants", "not_object">>,
      <<"get_menu_item", "valid">>, <<"get_menu_item", "empty">>,
      <<"get_menu_item", "not_json">>,
      <<"build_cart", "valid">>, <<"build_cart", "empty">>,
      <<"no_such_function", "valid">> }

ServiceOutcomes == {"returns", "http_exception", "exception"}

ToolCall(id, name, arguments) ==
    [id |-> id, type |-> "function",
     function |-> [name |-> name, arguments |-> arguments]]

\* json.loads(tool_call.function.arguments), {} on JSONDecodeError.
json_loads(arguments) == IF arguments = "not_json" THEN "empty" ELSE arguments

\* What the service layer does when it is called: it returns a result, or
\* raises an HTTPException or another exception.
ServiceResult(function_name, service) ==
    IF service = "returns" THEN [result |-> function_name] ELSE [raises |-> service]

UnexpectedError == [error |-> "Unexpected error", error_type |-> "unexpected_error"]

\* An exception that leaves execute_function_call.
Raised == [raised |-> TRUE]

\* TRUE when execute_function_call reaches the service layer.
CallsService(function_name, arguments) ==
    \/ function_name = "list_restaurants" /\ arguments # "not_object"
    \/ /\ function_name \in {"get_restaurant_menu", "get_menu_item", "track_delivery",
                             "build_cart", "compute_cost_estimate", "create_receipt",
                             "create_delivery"}
       /\ arguments = "valid"

\* The body of the try statement of execute_function_call: what it returns,
\* or the exception raised in it (arguments.get of a value that is no dict
\* raises AttributeError).
Dispatch(function_name, arguments, service) ==
    CASE function_name = "list_restaurants" ->
            IF arguments = "not_object"
            THEN [raises |-> "exception"]
            ELSE ServiceResult(function_name, service)
      [] function_name \in {"get_restaurant_menu", "get_menu_item", "track_delivery"} ->
            IF arguments = "not_object"
            THEN [raises |-> "exception"]
            ELSE IF arguments = "empty"
            THEN [error |-> "id is required"]
            ELSE ServiceResult(function_name, service)
      [] function_name \in {"build_cart", "compute_cost_estimate", "create_receipt",
                            "create_delivery"} ->
            IF arguments # "valid"
            THEN [error |-> "Invalid request parameters"]
            ELSE ServiceResult(function_name, service)
      [] OTHER -> [error |-> "Unknown function"]

\* The try statement without its except clauses.
execute_function_call_Uncaught(function_name, arguments, service) ==
    LET outcome == Dispatch(function_name, arguments, service)
    IN IF "raises" \in DOMAIN outcome THEN Raised ELSE outcome

\* The try statement with its two except clauses.
execute_function_call(function_name, arguments, service) ==
    LET outcome == Dispatch(function_name, arguments, service)
    IN IF "raises" \notin DOMAIN outcome
       THEN outcome
       ELSE IF outcome.raises = "http_exception"
       THEN [error |-> "detail", error_type |-> "http_exception",
             status_code |-> "status"]
       ELSE UnexpectedError

Suggestion == "Please try again"

\* The error formatting of the tool loop.
FormatToolResult(function_result) ==
    IF "error" \in DOMAIN function_result
    THEN [success |-> FALSE,
          error |-> function_result.error,
          error_type |-> IF "error_type" \in DOMAIN function_result
                         THEN function_result.error_type
                         ELSE "unknown",
          suggestion |-> Suggestion]
    ELSE function_result

\* A tool message that carries the function's name where the call's id belongs.
ToolMessage_NameForId(tool_call, function_result) ==
    [role |-> "tool", tool_call_id |-> <<tool_call.function.name>>,
     content |-> [json |-> function_result]]

ToolMessage(tool_call, function_result) ==
    [role |-> "tool", tool_call_id |-> tool_call.id,
     content |-> [json |-> function_result]]

\* The conversion of the message list into the list sent to the hosted model.
api_messages(msgs) ==
    [i \in 1..Len(msgs) |->
        LET msg == msgs[i] IN
        IF msg.role = "tool"
        THEN [role |-> "tool", tool_call_id |-> msg.tool_call_id, content |-> msg.content]
        ELSE IF msg.role = "assistant" /\ GetToolCalls(msg) # <<>>
        THEN [role |-> "assistant", content |-> msg.content,
              tool_calls |-> msg.tool_calls]
        ELSE [role |-> msg.role, content |-> msg.content]]

\* for msg in reversed(messages): the content of the last assistant message
\* that has one, NoText when there is none.
RECURSIVE LastAssistantText(_, _)
LastAssistantText(msgs, i) ==
    IF i = 0
    THEN NoText
    ELSE IF msgs[i].role = "assistant" /\ Truthy(GetText(msgs[i]))
    THEN GetText(msgs[i])
    ELSE LastAssistantText(msgs, i - 1)

\* -------------------------------------------------------------------- state
VARIABLES
    conversation_threads,  \* the thread store: thread id -> message list
    api_key,               \* whether OPEN_AI_API_KEY is set in the environment
    frame,                 \* per request in the server: the locals of agent_chat
    response,              \* per request: what the endpoint answered last
    served,                \* requests received so far
    env,                   \* what the clients and the hosted model may still do
    probe                  \* a call of one function or endpoint on its own

vars == <<conversation_threads, api_key, frame, response, served, env, probe>>

IdleFrame == [pc |-> "idle"]
NoResponse == [status_code |-> 0]
NoProbe == [pc |-> "none"]

\* The workloads: a conversation of plain turns on any thread, one turn whose
\* tool-calling replies may carry text, and one turn whose first rounds have
\* arbitrary replies and tool outcomes.
Workloads ==
    { [turns |-> MaxTurns, threads |-> ThreadIds, texts |-> 0, varied_rounds |-> 0],
      [turns |-> 1, threads |-> {1}, texts |-> MaxTexts, varied_rounds |-> 0],
      [turns |-> 1, threads |-> {1}, texts |-> 0, varied_rounds |-> MaxVariedRounds] }

Init ==
    /\ conversation_threads = << >>
    /\ api_key \in BOOLEAN
    /\ frame = [r \in Requests |-> IdleFrame]
    /\ response = [r \in Requests |-> NoResponse]
    /\ served = 0
    /\ env \in Workloads
    /\ probe = NoProbe

\* The positions of agent_chat between its first and its last line.
Active == {"awaiting_model_response", "executing_tools", "finalizing"}

\* A server that starts a request while another is being handled.
Schedulable_Interleaved(r) == TRUE

\* agent_chat is a coroutine without any await (the model and the services
\* are called synchronously): once the event loop has started it, no other
\* request is handled until it returns.
Schedulable(r) == \A q \in Requests \ {r} : frame[q].pc \notin Active

\* ------------------------------------------------- the hosted model's reply
DefaultCall(id) == ToolCall(id, "list_restaurants", "valid")

CallId(turn, round, j) == <<turn, round, j>>

\* The tool-call lists of a reply with k calls of which at most one is not
\* the default call.
CallLists(turn, round, k) ==
    LET default == [j \in 1..k |-> DefaultCall(CallId(turn, round, j))]
    IN {default} \cup
       { [default EXCEPT ![j] = ToolCall(CallId(turn, round, j), call[1], call[2])] :
            j \in 1..k, call \in OfferedCalls }

\* The replies of the hosted model: any tool-call list without text, and a
\* text alone or with the default call.
Replies(turn, round) ==
    { [content |-> NoText, tool_calls |-> calls] :
        calls \in UNION {CallLists(turn, round, k) : k \in 0..MaxToolCalls} }
    \cup
    { [content |-> <<turn, round>>, tool_calls |-> calls] :
        calls \in {<<>>, <<DefaultCall(CallId(turn, round, 1))>>} }

\* A plain reply is a final text, or one default tool call without text.
IsPlain(reply) ==
    \/ reply.tool_calls = <<>> /\ Truthy(reply.content)
    \/ /\ Len(reply.tool_calls) = 1
       /\ reply.tool_calls[1].function = DefaultCall(0).function
       /\ ~Truthy(reply.content)

IsNarrated(reply) ==
    /\ Len(reply.tool_calls) = 1
    /\ reply.tool_calls[1].function = DefaultCall(0).function
    /\ Truthy(reply.content)

\* What is left of the workload after the reply, or an empty set when the
\* workload does not allow the reply.
AfterReply(e, reply, round) ==
    IF IsPlain(reply) \/ round <= e.varied_rounds THEN {e}
    ELSE IF IsNarrated(reply) /\ e.texts > 0 THEN {[e EXCEPT !.texts = @ - 1]}
    ELSE {}

\* The outcomes of the service layer the workload allows for a tool call:
\* the default call always returns.
AllowedOutcomes(e, round, tool_call) ==
    IF round <= e.varied_rounds /\ tool_call.function # DefaultCall(0).function
    THEN ServiceOutcomes
    ELSE {"returns"}

\* ------------------------------------------------- the pieces of agent_chat
\* thread_id = request.thread_id or generate_thread_id()
ThreadIdFor(request, generated) ==
    IF request.thread_id # None THEN request.thread_id ELSE generated

\* A message list that starts with the system prompt on every turn.
InitialMessages_Always(conversation_history) == <<system_message>>

\* messages = [system_message] if len(conversation_history) == 1 else []
InitialMessages(conversation_history) ==
    IF Len(conversation_history) = 1 THEN <<system_message>> ELSE <<>>

\* A loop condition that lets one round too many through.
LoopContinues_OffByOne(iteration) == iteration <= max_iterations

\* while iteration < max_iterations
LoopContinues(iteration) == iteration < max_iterations

\* A loop that queries the model again after a reply without tool calls.
AfterFinalReply_NoBreak == "awaiting_model_response"

\* The position after a reply without tool calls: break.
AfterFinalReply == "finalizing"

\* An answer taken from final_response alone.
FinalResponse_NoFallback(final_response, msgs) == final_response

\* The fallback after the loop: final_response, or the most recent assistant
\* text when it is empty.
FinalResponse(final_response, msgs) ==
    IF ~Truthy(final_response)
    THEN LastAssistantText(msgs, Len(msgs))
    ELSE final_response

\* A client that is built without a look at the key.
get_openai_client_Unchecked(key) == [client |-> TRUE]

\* get_openai_client: the client, or the HTTPException it raises when the key
\* is not in the environment.
get_openai_client(key) ==
    IF ~key
    THEN [status_code |-> 500, detail |-> "OPEN_AI_API_KEY not found"]
    ELSE [client |-> TRUE]

\* A history written back with the system prompt in it.
updated_history_WithSystem(msgs) == msgs

\* updated_history = [msg for msg in messages if msg.get("role") != "system"]
updated_history(msgs) == SelectSeq(msgs, LAMBDA m : m.role # "system")

\* ------------------------------------------------------------------ actions
\* agent_chat up to the loop: the client, the thread and the message list.
agent_chat_begin(r) ==
    /\ frame[r].pc \notin Active
    /\ Schedulable(r)
    /\ \A q \in 1..(r - 1) : frame[q].pc \in Active
    /\ env.turns > 0
    /\ served' = served + 1
    /\ env' = [env EXCEPT !.turns = @ - 1]
    /\ UNCHANGED <<api_key, probe>>
    /\ \E tid \in {None} \cup env.threads :
       \E generated \in (IF tid = None THEN env.threads ELSE {tid}) :
         LET turn == served + 1
             request == [prompt |-> <<turn, 0>>, thread_id |-> tid]
             client == get_openai_client(api_key)
         IN
         IF "client" \notin DOMAIN client
         THEN /\ response' = [response EXCEPT ![r] = client]
              /\ frame' = [frame EXCEPT ![r] =
                     [pc |-> "failed", request |-> request, cause |-> "config"]]
              /\ UNCHANGED conversation_threads
         ELSE LET thread_id == ThreadIdFor(request, generated)
                  threads == get_or_create_thread(conversation_threads, thread_id)
                  conversation_history ==
                      Append(trim_conversation_history(threads[thread_id], max_messages),
                             UserMessage(request.prompt))
                  messages ==
                      InitialMessages(conversation_history) \o conversation_history
              IN /\ conversation_threads' =
                        [threads EXCEPT ![thread_id] = conversation_history]
                 /\ frame' = [frame EXCEPT ![r] =
                        [pc |-> "awaiting_model_response",
                         request |-> request,
                         thread_id |-> thread_id,
                         conversation_history |-> conversation_history,
                         messages |-> messages,
                         iteration |-> 0,
                         final_response |-> NoText,
                         pending |-> <<>>,
                         turn |-> turn,
                         first_turn |-> thread_id \notin DOMAIN conversation_threads,
                         prior |-> threads[thread_id],
                         base |-> Len(messages),
                         model_calls |-> 0,
                         sent_system |-> FALSE,
                         tool_log |-> <<>>,
                         cause |-> "none"]]
                 /\ response' = [response EXCEPT ![r] = NoResponse]

\* Except clauses that answer with the apology.
Abort_Apologizing(r, f, cause) ==
    /\ response' = [response EXCEPT ![r] =
            [status_code |-> 200, response |-> GenericFailure]]
    /\ frame' = [frame EXCEPT ![r] = [f EXCEPT !.pc = "failed", !.cause = cause]]

\* The except clauses of agent_chat: the handler answers 500; what it has
\* put in the store stays.
Abort(r, f, cause) ==
    /\ response' = [response EXCEPT ![r] =
            [status_code |-> 500, detail |-> "Error communicating with OpenAI API"]]
    /\ frame' = [frame EXCEPT ![r] = [f EXCEPT !.pc = "failed", !.cause = cause]]

\* client.chat.completions.create raises.
model_call_fails(r) ==
    /\ frame[r].pc = "awaiting_model_response"
    /\ LoopContinues(frame[r].iteration)
    /\ Abort(r, [frame[r] EXCEPT !.model_calls = @ + 1], "model")
    /\ UNCHANGED <<conversation_threads, api_key, served, env, probe>>

\* One round of the loop up to the tool calls: the model is invoked and its
\* reply appended; a reply without tool calls leaves the loop.
model_replies(r) ==
    /\ frame[r].pc = "awaiting_model_response"
    /\ LoopContinues(frame[r].iteration)
    /\ \E reply \in Replies(frame[r].turn, frame[r].iteration + 1) :
       \E e \in AfterReply(env, reply, frame[r].iteration + 1) :
         LET f == frame[r]
             sent == api_messages(f.messages)
             assistant_msg_dict ==
                 IF reply.tool_calls # <<>>
                 THEN [role |-> "assistant", content |-> [text |-> reply.content],
                       tool_calls |-> reply.tool_calls]
                 ELSE [role |-> "assistant", content |-> [text |-> reply.content]]
             g == [f EXCEPT !.messages = Append(f.messages, assistant_msg_dict),
                            !.model_calls = @ + 1,
                            !.sent_system =
                                \E i \in 1..Len(sent) : sent[i].role = "system"]
         IN /\ env' = e
            /\ frame' = [frame EXCEPT ![r] =
                   IF reply.tool_calls = <<>>
                   THEN [g EXCEPT !.final_response = reply.content,
                                  !.pc = AfterFinalReply]
                   ELSE [g EXCEPT !.pending = reply.tool_calls,
                                  !.pc = "executing_tools"]]
    /\ UNCHANGED <<conversation_threads, api_key, response, served, probe>>

\* The body of the tool loop for the next tool call of the reply; after the
\* last one the round is counted and the loop condition tested.
execute_tool_call(r) ==
    /\ frame[r].pc = "executing_tools"
    /\ LET f == frame[r]
           tool_call == Head(f.pending)
           function_name == tool_call.function.name
           function_args == json_loads(tool_call.function.arguments)
       IN \E service \in (IF CallsService(function_name, function_args)
                          THEN AllowedOutcomes(env, f.iteration + 1, tool_call)
                          ELSE {"returns"}) :
            LET returned == execute_function_call(function_name, function_args, service)
                function_result == FormatToolResult(returned)
                g == [f EXCEPT !.messages =
                                   Append(f.messages, ToolMessage(tool_call, function_result)),
                               !.pending = Tail(f.pending),
                               !.tool_log = Append(@, [tool_call |-> tool_call,
                                                       service |-> service])]
            IN IF returned = Raised
               THEN Abort(r, f, "tool")
               ELSE /\ frame' = [frame EXCEPT ![r] =
                           IF Tail(f.pending) # <<>>
                           THEN g
                           ELSE [g EXCEPT !.iteration = @ + 1,
                                          !.pc = IF LoopContinues(f.iteration + 1)
                                                 THEN "awaiting_model_response"
                                                 ELSE "finalizing"]]
                    /\ UNCHANGED response
    /\ UNCHANGED <<conversation_threads, api_key, served, env, probe>>

\* agent_chat after the loop: the fallback text, the history and the answer.
finalize(r) ==
    /\ frame[r].pc = "finalizing"
    /\ LET f == frame[r]
           final_response == FinalResponse(f.final_response, f.messages)
       IN /\ conversation_threads' =
                 [conversation_threads EXCEPT ![f.thread_id] =
                     trim_conversation_history(updated_history(f.messages),
                                               max_messages)]
          /\ response' = [response EXCEPT ![r] =
                 [status_code |-> 200,
                  response |-> IF Truthy(final_response)
                               THEN final_response
                               ELSE GenericFailure,
                  thread_id |-> f.thread_id]]
          /\ frame' = [frame EXCEPT ![r] = [f EXCEPT !.pc = "done"]]
    /\ UNCHANGED <<api_key, served, env, probe>>

Next ==
    \E r \in Requests :
        \/ agent_chat_begin(r)
        \/ model_call_fails(r)
        \/ model_replies(r)
        \/ execute_tool_call(r)
        \/ finalize(r)

Spec == Init /\ [][Next]_vars

\* ------------------------------------- trim_conversation_history on its own
\* Message lists of up to MaxLen messages and windows of up to MaxWindow.
MaxLen == 4
MaxWindow == 3

\* The i-th message of a list: its content tells its place.
ProbeMessage(role, i) == [role |-> role, content |-> [text |-> <<0, i>>]]

ProbeLists ==
    UNION { { [i \in 1..len |-> ProbeMessage(roles[i], i)] :
                roles \in [1..len -> {"system", "user", "assistant"}] } :
            len \in 0..MaxLen }

InitTrim ==
    /\ conversation_threads = << >>
    /\ api_key = TRUE
    /\ frame = [r \in Requests |-> IdleFrame]
    /\ response = [r \in Requests |-> NoResponse]
    /\ served = 0
    /\ env = [turns |-> 0, threads |-> {}, texts |-> 0, varied_rounds |-> 0]
    /\ probe \in { [pc |-> "called", messages |-> msgs, max_messages |-> n,
                    returned |-> <<>>] :
                   msgs \in ProbeLists, n \in 1..MaxWindow }

trim_returns ==
    /\ probe.pc = "called"
    /\ probe' = [probe EXCEPT
           !.pc = "returned",
           !.returned = trim_conversation_history(probe.messages, probe.max_messages)]
    /\ UNCHANGED <<conversation_threads, api_key, frame, response, served, env>>

NextTrim == trim_returns

SpecTrim == InitTrim /\ [][NextTrim]_vars

\* --------------------------------------------------------------- properties
\* The requests whose handler got as far as building its message list.
Handled == {r \in Requests : "messages" \in DOMAIN frame[r]}

IsToolCalling(m) == m.role = "assistant" /\ GetToolCalls(m) # <<>>
IsFinalReply(m) == m.role = "assistant" /\ GetToolCalls(m) = <<>>

\* The places of this turn's messages in the message list: those after the
\* turn's user message.
OfTurn(f) == (f.base + 1)..Len(f.messages)

AssistantCount(f) ==
    Cardinality({i \in OfTurn(f) : f.messages[i].role = "assistant"})

\* The text of the assistant message nearest the end of the list that has
\* one, and the generic failure message when no assistant message has.
MostRecentText(msgs) ==
    LET S == {j \in 1..Len(msgs) :
                 msgs[j].role = "assistant" /\ Truthy(GetText(msgs[j]))}
    IN IF S = {}
       THEN GenericFailure
       ELSE GetText(msgs[CHOOSE j \in S : \A k \in S : k <= j])

NonSystemCount(msgs) == Len(SelectSeq(msgs, LAMBDA m : m.role # "system"))

\* C1: within one call of agent_chat the hosted model is invoked at most 10
\* times, whatever it replies; the loop is left once 10 rounds are counted.
C1_ModelInvokedAtMostTenTimes ==
    \A r \in Handled :
        /\ frame[r].model_calls <= 10
        /\ frame[r].iteration <= 10
        /\ frame[r].pc = "awaiting_model_response" => frame[r].iteration < 10

\* A turn in which every one of the 10 replies asked for tools has ended.
C1_CeilingReached ==
    \E r \in Handled :
        /\ frame[r].pc = "done"
        /\ frame[r].model_calls = 10
        /\ frame[r].messages[Len(frame[r].messages)].role = "tool"

Executed(f, i) ==
    IF /\ f.pc = "executing_tools"
       /\ \A j \in (i + 1)..Len(f.messages) : f.messages[j].role = "tool"
    THEN Len(f.messages[i].tool_calls) - Len(f.pending)
    ELSE Len(f.messages[i].tool_calls)

\* C3: a reply with k >= 1 tool calls is followed by one tool message per call,
\* in the order of the calls and each with the id of its call, and the next
\* assistant message (the next query of the model) comes only after all k;
\* while they are executed the calls still to run are the rest of the list.
C3_ToolMessagesFollowTheirCalls ==
    \A r \in Handled :
        LET f == frame[r]
            msgs == f.messages
        IN /\ \A i \in OfTurn(f) :
                IsToolCalling(msgs[i]) =>
                   LET calls == msgs[i].tool_calls
                       k == Len(calls)
                       executed == Executed(f, i)
                   IN /\ i + executed <= Len(msgs)
                      /\ \A j \in 1..executed :
                            /\ msgs[i + j].role = "tool"
                            /\ msgs[i + j].tool_call_id = calls[j].id
                      /\ i + executed < Len(msgs) =>
                            executed = k /\ msgs[i + k + 1].role = "assistant"
                      /\ executed < k => f.pending = SubSeq(calls, executed + 1, k)
                      /\ f.pc = "awaiting_model_response" => executed = k
           /\ \A i \in OfTurn(f) :
                msgs[i].role = "tool" =>
                   i > f.base + 1 /\ msgs[i - 1].role \in {"assistant", "tool"}
           /\ f.pc = "executing_tools" => f.pending # <<>>

\* The model is about to be queried again after a reply with two tool calls.
C3_TwoCallsAnswered ==
    \E r \in Handled :
        LET f == frame[r] IN
        /\ f.pc = "awaiting_model_response"
        /\ \E i \in OfTurn(f) :
              /\ IsToolCalling(f.messages[i])
              /\ Len(f.messages[i].tool_calls) >= 2
              /\ i + Len(f.messages[i].tool_calls) = Len(f.messages)

\* C4: a turn that ends at the ceiling of 10 tool-calling rounds answers with
\* the most recent non-empty assistant text of its message list, and with the
\* generic failure message when there is none.
C4_CeilingAnswer ==
    \A r \in Handled :
        frame[r].pc = "done" /\ frame[r].iteration = 10 =>
            /\ response[r].status_code = 200
            /\ response[r].response = MostRecentText(frame[r].messages)

\* A turn that ended at the ceiling and answers with the text of one of its
\* own tool-calling replies.
C4_CeilingAnsweredWithText ==
    \E r \in Handled :
        /\ frame[r].pc = "done"
        /\ frame[r].iteration = 10
        /\ response[r].response # GenericFailure
        /\ response[r].response[1] = frame[r].turn

\* C5, as the specification words it: when no request is being handled, no
\* stored history holds more than 20 non-system messages.
C5_HistoryWindow ==
    (\A r \in Requests : frame[r].pc \notin Active) =>
        \A tid \in DOMAIN conversation_threads :
            NonSystemCount(conversation_threads[tid]) <= 20

\* A tool call whose execution ends in an error: an unknown function, arguments
\* that are no object or lack what the function needs, or a service that raises.
ToolFails(tool_call, service) ==
    LET name == tool_call.function.name
        arguments == tool_call.function.arguments
    IN \/ name \notin {"list_restaurants", "get_restaurant_menu", "get_menu_item",
                       "build_cart", "compute_cost_estimate", "create_receipt",
                       "create_delivery", "track_delivery"}
       \/ arguments = "not_object"
       \/ arguments \in {"empty", "not_json"} /\ name # "list_restaurants"
       \/ service # "returns"

ToolMessagesOfTurn(f) ==
    SelectSeq(SubSeq(f.messages, f.base + 1, Len(f.messages)),
              LAMBDA m : m.role = "tool")

\* C6: every executed tool call has its tool message; the message of a call
\* that failed carries {success: false, error, error_type, suggestion} and
\* that of a call that succeeded carries the result; no turn is aborted
\* because of a tool; after the last call of a reply the loop goes on.
C6_ToolErrorsBecomeToolMessages ==
    \A r \in Handled :
        LET f == frame[r]
            tool_msgs == ToolMessagesOfTurn(f)
        IN /\ f.cause # "tool"
           /\ Len(tool_msgs) = Len(f.tool_log)
           /\ \A n \in 1..Len(f.tool_log) :
                 LET payload == tool_msgs[n].content.json
                     entry == f.tool_log[n]
                 IN /\ tool_msgs[n].tool_call_id = entry.tool_call.id
                    /\ IF ToolFails(entry.tool_call, entry.service)
                       THEN /\ DOMAIN payload =
                                  {"success", "error", "error_type", "suggestion"}
                            /\ payload.success = FALSE
                       ELSE "success" \notin DOMAIN payload
           /\ f.pc = "failed" => f.cause = "model"

\* The model is about to be queried again after a tool call whose service
\* raised an exception.
C6_LoopGoesOnAfterException ==
    \E r \in Handled :
        /\ frame[r].pc = "awaiting_model_response"
        /\ \E n \in 1..Len(frame[r].tool_log) :
              frame[r].tool_log[n].service = "exception"

HasSystemMessage(msgs) == \E i \in 1..Len(msgs) : msgs[i].role = "system"

\* C7: the list sent to the model holds the system prompt exactly when the
\* turn is the first of its thread, that is when the thread was not in the
\* store before the request; it then holds it once, in front.
C7_SystemPromptOnFirstTurnOnly ==
    \A r \in Handled :
        LET f == frame[r]
            sent == api_messages(f.messages)
        IN /\ HasSystemMessage(sent) <=> f.first_turn
           /\ f.model_calls >= 1 /\ f.cause = "none" =>
                 (f.sent_system <=> f.first_turn)
           /\ \A i \in 1..Len(sent) :
                 sent[i].role = "system" => i = 1 /\ sent[i] = system_message

\* The model has been queried without a system message on a later turn of a
\* thread.
C7_LaterTurnWithoutPrompt ==
    \E r \in Handled :
        /\ frame[r].model_calls >= 1
        /\ frame[r].cause = "none"
        /\ ~frame[r].first_turn
        /\ ~frame[r].sent_system
        /\ Len(frame[r].conversation_history) >= 3

C9_ThreadsCreatedEchoedAndKept ==
    [][ /\ DOMAIN conversation_threads \subseteq DOMAIN conversation_threads'
        /\ \A r \in Requests :
              "thread_id" \in DOMAIN frame'[r] =>
                 LET f == frame'[r] IN
                 /\ f.thread_id \in DOMAIN conversation_threads'
                 /\ f.request.thread_id # None => f.thread_id = f.request.thread_id
                 /\ f.first_turn =>
                       f.conversation_history = <<UserMessage(f.request.prompt)>>
                 /\ response'[r].status_code = 200 =>
                       response'[r].thread_id = f.thread_id
      ]_vars

\* A request without thread id has been answered with the id of the thread
\* created for it, next to a thread created before.
C9_GeneratedIdEchoed ==
    \E r \in Handled :
        /\ frame[r].pc = "done"
        /\ frame[r].request.thread_id = None
        /\ frame[r].first_turn
        /\ response[r].thread_id = frame[r].thread_id
        /\ Cardinality(DOMAIN conversation_threads) = 2

\* The last n elements of s, all of s when it has fewer.
KeptTail(s, n) ==
    LET k == IF Len(s) < n THEN Len(s) ELSE n
    IN [i \in 1..k |-> s[Len(s) - k + i]]

\* C10: trim_conversation_history returns a list of at most N messages as it
\* is, and of a longer one the system messages followed by the last N
\* non-system messages (all of them when there are fewer than N), each group
\* in its original order.
C10_TrimKeepsTheRecentWindow ==
    probe.pc = "returned" =>
        LET msgs == probe.messages
            n == probe.max_messages
        IN probe.returned =
              IF Len(msgs) <= n
              THEN msgs
              ELSE SelectSeq(msgs, LAMBDA m : m.role = "system")
                      \o KeptTail(SelectSeq(msgs, LAMBDA m : m.role # "system"), n)

\* A list with a system message and more than N other messages was trimmed.
C10_Trimmed ==
    /\ probe.pc = "returned"
    /\ HasSystemMessage(probe.messages)
    /\ NonSystemCount(probe.messages) > probe.max_messages
    /\ NonSystemCount(probe.returned) = probe.max_messages
    /\ probe.returned # probe.messages

\* ------------------------------------------------ values read from documents
\* A float is kept as its whole part and its fractional part in millionths.
Micro == 1000000

PyNone == [kind |-> "none"]
PyInt(n) == [kind |-> "int", n |-> n]
PyFloat(whole, frac) == [kind |-> "float", whole |-> whole, frac |-> frac]
PyStr(chars) == [kind |-> "str", chars |-> chars]
\* A value that is neither None, a number nor a string (a list, a dict).
PyOther == [kind |-> "other"]

\* isinstance(value, int)
IsNumber_IntOnly(value) == value.kind = "int"

\* isinstance(value, (int, float))
IsNumber(value) == value.kind \in {"int", "float"}

\* float(value) of a number.
float(value) ==
    IF value.kind = "int" THEN PyFloat(value.n, 0) ELSE value

\* ------------------------------------------------------ regular expressions
Digits == {"0", "1", "2", "3", "4", "5", "6", "7", "8", "9"}

DigitValue(c) ==
    CASE c = "0" -> 0 [] c = "1" -> 1 [] c = "2" -> 2 [] c = "3" -> 3
      [] c = "4" -> 4 [] c = "5" -> 5 [] c = "6" -> 6 [] c = "7" -> 7
      [] c = "8" -> 8 [] c = "9" -> 9

RECURSIVE DigitsToNat(_)
DigitsToNat(ds) ==
    IF ds = <<>> THEN 0
    ELSE 10 * DigitsToNat(SubSeq(ds, 1, Len(ds) - 1)) + DigitValue(ds[Len(ds)])

RECURSIVE Pow10(_)
Pow10(n) == IF n = 0 THEN 1 ELSE 10 * Pow10(n - 1)

NoMatch == [found |-> FALSE]

\* \d+ from position i: the position of the last digit of the run that
\* starts at i, i - 1 when there is no digit at i.
DigitRunEnd(s, i) ==
    CHOOSE j \in (i - 1)..Len(s) :
        /\ \A k \in i..j : s[k] \in Digits
        /\ j = Len(s) \/ s[j + 1] \notin Digits

\* The group (\d+\.?\d*) matched from the digit at position i.
DecimalGroupAt(s, i) ==
    LET a == DigitRunEnd(s, i)
        dot == a < Len(s) /\ s[a + 1] = "."
        b == IF dot THEN DigitRunEnd(s, a + 2) ELSE a
    IN [found |-> TRUE, group |-> SubSeq(s, i, b)]

\* re.search(r'(\d+\.?\d*)', s): the leftmost match starts at the first digit.
re_search_decimal(s) ==
    LET starts == {i \in 1..Len(s) : s[i] \in Digits}
    IN IF starts = {} THEN NoMatch
       ELSE DecimalGroupAt(s, CHOOSE i \in starts : \A k \in starts : i <= k)

\* The search giving the whole match (group 0), the "$" included.
re_search_dollar_decimal_Group0(s) ==
    LET starts == {i \in 1..Len(s) :
                      \/ s[i] \in Digits
                      \/ s[i] = "$" /\ i < Len(s) /\ s[i + 1] \in Digits}
    IN IF starts = {} THEN NoMatch
       ELSE LET i == CHOOSE i \in starts : \A k \in starts : i <= k
                m == DecimalGroupAt(s, IF s[i] = "$" THEN i + 1 ELSE i)
            IN [found |-> TRUE, group |-> SubSeq(s, i, i - 1 + Len(m.group)
                                             + IF s[i] = "$" THEN 1 ELSE 0)]

\* re.search(r'\$?(\d+\.?\d*)', s): the leftmost match starts at a "$" that a
\* digit follows or at a digit; the group starts at that digit.
re_search_dollar_decimal(s) ==
    LET starts == {i \in 1..Len(s) :
                      \/ s[i] \in Digits
                      \/ s[i] = "$" /\ i < Len(s) /\ s[i + 1] \in Digits}
    IN IF starts = {} THEN NoMatch
       ELSE LET i == CHOOSE i \in starts : \A k \in starts : i <= k
            IN DecimalGroupAt(s, IF s[i] = "$" THEN i + 1 ELSE i)

\* re.search(r'(\d+)', s)
re_search_integer(s) ==
    LET starts == {i \in 1..Len(s) : s[i] \in Digits}
    IN IF starts = {} THEN NoMatch
       ELSE LET i == CHOOSE i \in starts : \A k \in starts : i <= k
            IN [found |-> TRUE, group |-> SubSeq(s, i, DigitRunEnd(s, i))]

\* What a call gives when it raises instead of returning.
Raises(exception) == [kind |-> "raises", exception |-> exception]

\* float(text) of a decimal literal (digits with at most one point); any
\* other text raises ValueError.  The digits after the sixth decimal are
\* dropped.
python_float(text) ==
    LET points == {i \in 1..Len(text) : text[i] = "."}
        point == IF points = {} THEN Len(text) + 1 ELSE CHOOSE i \in points : TRUE
        whole == SubSeq(text, 1, point - 1)
        decimals == SubSeq(text, point + 1, Len(text))
        frac == IF Len(decimals) > 6 THEN SubSeq(decimals, 1, 6) ELSE decimals
    IN IF /\ Cardinality(points) <= 1
          /\ \A i \in 1..Len(text) : text[i] \in Digits \cup {"."}
          /\ \E i \in 1..Len(text) : text[i] \in Digits
       THEN PyFloat(DigitsToNat(whole), DigitsToNat(frac) * Pow10(6 - Len(frac)))
       ELSE Raises("ValueError")

\* int(text) of a run of digits; any other text raises ValueError.
python_int(text) ==
    IF text # <<>> /\ \A i \in 1..Len(text) : text[i] \in Digits
    THEN PyInt(DigitsToNat(text))
    ELSE Raises("ValueError")

\* ------------------------------- restaurants.py: the parsers of the handlers
parse_delivery_fee(value) ==
    CASE value.kind = "none" -> PyFloat(0, 0)
      [] IsNumber(value) -> float(value)
      [] value.kind = "str" ->
            LET match == re_search_dollar_decimal(value.chars)
            IN IF match.found THEN python_float(match.group)
               ELSE PyFloat(0, 0)
      [] OTHER -> PyFloat(0, 0)

parse_price(value) ==
    CASE value.kind = "none" -> PyFloat(0, 0)
      [] IsNumber(value) -> float(value)
      [] value.kind = "str" ->
            LET match == re_search_decimal(value.chars)
            IN IF match.found THEN python_float(match.group)
               ELSE PyFloat(0, 0)
      [] OTHER -> PyFloat(0, 0)

\* ---------------------------- models.py: the validators of the response models
RestaurantResponse_parse_delivery_fee(v) ==
    CASE v.kind = "none" -> PyNone
      [] IsNumber(v) -> float(v)
      [] v.kind = "str" ->
            LET match == re_search_dollar_decimal(v.chars)
            IN IF match.found THEN python_float(match.group) ELSE v
      [] OTHER -> v

MenuItemResponse_parse_price(v) ==
    CASE v.kind = "none" -> PyNone
      [] IsNumber(v) -> float(v)
      [] v.kind = "str" ->
            LET match == re_search_decimal(v.chars)
            IN IF match.found THEN python_float(match.group) ELSE v
      [] OTHER -> v

\* v.strip('()')
strip_parens(s) ==
    LET kept == {i \in 1..Len(s) : s[i] \notin {"(", ")"}}
    IN IF kept = {} THEN <<>>
       ELSE SubSeq(s, CHOOSE i \in kept : \A k \in kept : i <= k,
                      CHOOSE j \in kept : \A k \in kept : k <= j)

\* v_clean.lower()
lower(s) == [i \in 1..Len(s) |-> IF s[i] = "K" THEN "k" ELSE s[i]]

\* 'k+' in s
contains_k_plus(s) == \E i \in 1..(Len(s) - 1) : s[i] = "k" /\ s[i + 1] = "+"

\* The decimals d of the texts below whose binary64 product float(d) * 1000
\* lies just under the integer d * 1000: 32.3 * 1000 is 32299.999999999996
\* and 32.23 * 1000 is 32229.999999999996.
Binary64Shortfall == {PyFloat(32, 300000), PyFloat(32, 230000)}

\* int(float(match.group(1)) * 1000)
int_of_thousands(text) ==
    LET d == python_float(text)
        product == d.whole * 1000 + d.frac \div 1000
    IN IF d.kind = "raises" THEN d
       ELSE PyInt(IF d \in Binary64Shortfall THEN product - 1 ELSE product)

parse_number_of_ratings(v) ==
    CASE v.kind = "none" -> PyNone
      [] v.kind = "int" -> v
      [] v.kind = "str" ->
            LET v_clean == strip_parens(v.chars)
                k_match == re_search_decimal(v_clean)
                match == re_search_integer(v_clean)
            IN IF contains_k_plus(lower(v_clean)) /\ k_match.found
               THEN int_of_thousands(k_match.group)
               ELSE IF match.found THEN python_int(match.group)
               ELSE v
      [] OTHER -> v

\* The agent endpoint at rest, for the functions and endpoints run on their own.
AgentAtRest ==
    /\ conversation_threads = << >>
    /\ api_key = TRUE
    /\ frame = [r \in Requests |-> IdleFrame]
    /\ response = [r \in Requests |-> NoResponse]
    /\ served = 0
    /\ env = [turns |-> 0, threads |-> {}, texts |-> 0, varied_rounds |-> 0]

agent_vars == <<conversation_threads, api_key, frame, response, served, env>>

\* ------------------------------------------------ normalization on its own
\* Texts of up to MaxChars characters over an alphabet of the characters the
\* parsers tell apart, and the texts of the docstrings and comments.
MaxChars == 3
Alphabet == {"$", "(", ")", "2", "3", ".", "k", "+", "f"}

Text_free == <<"f", "r", "e", "e">>
Text_2_99_delivery ==
    <<"$", "2", ".", "9", "9", " ", "d", "e", "l", "i", "v", "e", "r", "y">>
Text_Free_delivery ==
    <<"F", "r", "e", "e", " ", "d", "e", "l", "i", "v", "e", "r", "y">>
Text_16_99 == <<"$", "$", "1", "6", ".", "9", "9">>
Text_3k_plus == <<"(", "3", "k", "+", ")">>
Text_3K_plus == <<"(", "3", "K", "+", ")">>
Text_100 == <<"1", "0", "0">>
Text_1_2k == <<"1", ".", "2", "k">>
Text_1_2k_plus == <<"(", "1", ".", "2", "k", "+", ")">>
Text_32_3k_plus == <<"(", "3", "2", ".", "3", "k", "+", ")">>

ExampleTexts ==
    {Text_free, Text_2_99_delivery, Text_Free_delivery, Text_16_99,
     Text_3k_plus, Text_3K_plus, Text_100, Text_1_2k, Text_1_2k_plus,
     Text_32_3k_plus}

Texts ==
    ExampleTexts \cup UNION { [1..len -> Alphabet] : len \in 0..MaxChars }

\* The values a document field may hold.
StoredValues ==
    {PyNone, PyOther, PyInt(0), PyInt(100), PyFloat(0, 0), PyFloat(16, 990000)}
        \cup {PyStr(t) : t \in Texts}

Normalizers ==
    {"parse_price", "parse_delivery_fee", "MenuItemResponse.parse_price",
     "RestaurantResponse.parse_delivery_fee",
     "RestaurantResponse.parse_number_of_ratings"}

Normalize(function, value) ==
    CASE function = "parse_price" -> parse_price(value)
      [] function = "parse_delivery_fee" -> parse_delivery_fee(value)
      [] function = "MenuItemResponse.parse_price" ->
            MenuItemResponse_parse_price(value)
      [] function = "RestaurantResponse.parse_delivery_fee" ->
            RestaurantResponse_parse_delivery_fee(value)
      [] function = "RestaurantResponse.parse_number_of_ratings" ->
            parse_number_of_ratings(value)

InitNormalize ==
    /\ AgentAtRest
    /\ probe \in { [pc |-> "called", function |-> f, value |-> v,
                    returned |-> PyNone, again |-> PyNone] :
                   f \in Normalizers, v \in StoredValues }

\* The function returns, or raises.
normalize_returns ==
    /\ probe.pc = "called"
    /\ probe' = [probe EXCEPT
           !.pc = "returned",
           !.returned = Normalize(probe.function, probe.value)]
    /\ UNCHANGED agent_vars

\* The function is applied to what it returned.
normalize_again ==
    /\ probe.pc = "returned"
    /\ probe.returned.kind # "raises"
    /\ probe' = [probe EXCEPT
           !.pc = "renormalized",
           !.again = Normalize(probe.function, probe.returned)]
    /\ UNCHANGED agent_vars

NextNormalize ==
    \/ normalize_returns
    \/ normalize_again

SpecNormalize == InitNormalize /\ [][NextNormalize]_vars

\* ------------------------------------------------ database.py: the documents
\* The text of an identifier is a number: n > 0 stands for the 24 hexadecimal
\* digits of document n written in lower case, UpperCase(n) for the same
\* digits with their letters in upper case, and MalformedId for a text that
\* bson.ObjectId rejects.
MalformedId == 0

UpperCase(n) == 0 - n

\* ObjectId(text): the two spellings of a digit give the same identifier; a
\* text that is no 24 hexadecimal digits raises InvalidId.
ObjectId(text) ==
    IF text = MalformedId
    THEN Raises("InvalidId")
    ELSE [oid |-> IF text < 0 THEN 0 - text ELSE text]

InvalidId(text) == "oid" \notin DOMAIN ObjectId(text)

\* str(oid): the 24 digits in lower case.
str(oid) == oid.oid

\* item['_id'] = str(item['_id'])
WithTextId(document) == [document EXCEPT !._id = str(@)]

\* Request lines per cart.
MaxItems == 2
Quantities == {1, 2}

\* The items collection: prices stored as numbers and as text.
ItemsCollection ==
    [id \in {1, 2, 3} |->
        [_id |-> [oid |-> id],
         price |-> CASE id = 1 -> PyFloat(12, 990000)
                     [] id = 2 -> PyFloat(5, 0)
                     [] id = 3 -> PyStr(Text_16_99)]]

\* What the one restaurant's document may hold as delivery_fee (None stands
\* for a document without the key as well).
StoredFees ==
    {PyNone, PyInt(0), PyStr(Text_2_99_delivery), PyStr(Text_Free_delivery)}

RestaurantsCollection(fee) ==
    [id \in {1} |->
        [_id |-> [oid |-> id], delivery_fee |-> fee,
         items |-> <<[oid |-> 1], [oid |-> 2], [oid |-> 3]>>]]

\* Which query of the request fails in the driver (server unreachable).
QueryFailures == {"none", "restaurants", "items"}

RestaurantIds == {MalformedId, 1, 2}
ItemIds == {MalformedId, 1, 2, 3, 4, UpperCase(1)}

\* get_restaurant_by_id: None for a malformed id, an absent document and a
\* query that raises.
get_restaurant_by_id(db, restaurant_id) ==
    IF InvalidId(restaurant_id) \/ db.fails = "restaurants"
    THEN PyNone
    ELSE LET found == {k \in DOMAIN db.restaurants :
                          db.restaurants[k]._id = ObjectId(restaurant_id)}
         IN IF found = {}
            THEN PyNone
            ELSE LET restaurant == db.restaurants[CHOOSE k \in found : TRUE]
                 IN IF "items" \in DOMAIN restaurant
                    THEN [WithTextId(restaurant) EXCEPT
                             !.items = [i \in 1..Len(@) |-> str(@[i])]]
                    ELSE WithTextId(restaurant)

\* get_items_by_ids: the documents whose id is among item_ids; nothing when
\* one id is malformed or the query raises.
get_items_by_ids(db, item_ids) ==
    IF \/ \E i \in 1..Len(item_ids) : InvalidId(item_ids[i])
       \/ db.fails = "items"
    THEN {}
    ELSE LET object_ids == {ObjectId(item_ids[i]) : i \in 1..Len(item_ids)}
         IN {WithTextId(db.items[k]) :
                k \in {k \in DOMAIN db.items : db.items[k]._id \in object_ids}}

\* A lookup whose ObjectId error leaves the function.
get_item_by_id_Propagating(db, item_id) ==
    IF InvalidId(item_id) \/ db.fails = "items"
    THEN Raises("InvalidId")
    ELSE LET found == {k \in DOMAIN db.items : db.items[k]._id = ObjectId(item_id)}
         IN IF found = {}
            THEN PyNone
            ELSE WithTextId(db.items[CHOOSE k \in found : TRUE])

\* get_item_by_id: None for a malformed id, an absent document and a query
\* that raises.
get_item_by_id(db, item_id) ==
    IF InvalidId(item_id) \/ db.fails = "items"
    THEN PyNone
    ELSE LET found == {k \in DOMAIN db.items : db.items[k]._id = ObjectId(item_id)}
         IN IF found = {}
            THEN PyNone
            ELSE WithTextId(db.items[CHOOSE k \in found : TRUE])

\* get_menu_items: the documents named by the restaurant's items array, or
\* those of its store when the array is empty; nothing for a malformed id, an
\* absent restaurant and a query that raises.
get_menu_items(db, restaurant_id) ==
    LET found == IF InvalidId(restaurant_id) THEN {}
                 ELSE {k \in DOMAIN db.restaurants :
                          db.restaurants[k]._id = ObjectId(restaurant_id)}
    IN IF found = {} \/ db.fails # "none"
       THEN {}
       ELSE LET restaurant == db.restaurants[CHOOSE k \in found : TRUE]
                item_ids == IF "items" \in DOMAIN restaurant
                            THEN restaurant.items ELSE <<>>
                items ==
                    IF item_ids = <<>>
                    THEN IF "store_id" \in DOMAIN restaurant
                         THEN {k \in DOMAIN db.items :
                                  /\ "store_id" \in DOMAIN db.items[k]
                                  /\ db.items[k].store_id = restaurant.store_id}
                         ELSE {}
                    ELSE {k \in DOMAIN db.items :
                             \E i \in 1..Len(item_ids) : db.items[k]._id = item_ids[i]}
            IN {WithTextId(db.items[k]) : k \in items}

\* ------------------------------------------- restaurants.py: cart and estimate
\* A float of the handlers, in millionths of a dollar.
Amount(value) == value.whole * Micro + value.frac

\* round(x, 2) of an amount: the nearest cent; an amount half-way between two
\* cents goes to either, as its binary64 neighbour lies on either side
\* (round(0.085, 2) is 0.09 and round(1.085, 2) is 1.08).
round2(x) ==
    LET cent == Micro \div 100
        below == (x \div cent) * cent
        rest == x % cent
    IN IF 2 * rest < cent THEN {below}
       ELSE IF 2 * rest > cent THEN {below + cent}
       ELSE {below, below + cent}

\* Optional[float]
Null == <<>>
Some(x) == <<x>>

HTTPException(status_code, detail) ==
    [status_code |-> status_code, detail |-> detail]

\* The error of the loop over the request lines, which names the line's id.
ItemNotFound(item_id) ==
    [status_code |-> 400, detail |-> "Item not found", item_id |-> item_id]

RECURSIVE SumOfSubtotals(_)
SumOfSubtotals(lines) ==
    IF lines = <<>> THEN 0
    ELSE SumOfSubtotals(SubSeq(lines, 1, Len(lines) - 1))
            + lines[Len(lines)].subtotal

\* items_map = {item['_id']: item for item in items_data}
ItemsMap(items_data) ==
    [id \in {d._id : d \in items_data} |-> CHOOSE d \in items_data : d._id = id]

\* The loop with the unit price as the line's subtotal.
CartLines_UnitPrice(request, items_map) ==
    [i \in 1..Len(request.items) |->
        LET item == request.items[i]
            item_price == Amount(parse_price(items_map[item.item_id].price))
        IN [item_id |-> item.item_id, price |-> item_price,
            quantity |-> item.quantity,
            subtotal |-> item_price]]

\* The loop over request.items: one line per request line.
CartLines(request, items_map) ==
    [i \in 1..Len(request.items) |->
        LET item == request.items[i]
            item_price == Amount(parse_price(items_map[item.item_id].price))
        IN [item_id |-> item.item_id, price |-> item_price,
            quantity |-> item.quantity,
            subtotal |-> item_price * item.quantity]]

ItemIdsOf(request) ==
    [i \in 1..Len(request.items) |-> request.items[i].item_id]

\* The checks with the item lookup put before the restaurant lookup.
LookupFailure_ItemsFirst(db, request) ==
    LET restaurant == get_restaurant_by_id(db, request.restaurant_id)
        item_ids == ItemIdsOf(request)
        items_data == get_items_by_ids(db, item_ids)
    IN IF Cardinality(items_data) # Len(item_ids)
       THEN <<HTTPException(400, "One or more items not found or invalid")>>
       ELSE IF restaurant = PyNone
       THEN <<HTTPException(404, "Restaurant not found")>>
       ELSE <<>>

\* The checks that both handlers make before they compute: the restaurant,
\* then the items.  <<>> when the request passes them.
LookupFailure(db, request) ==
    LET restaurant == get_restaurant_by_id(db, request.restaurant_id)
        item_ids == ItemIdsOf(request)
        items_data == get_items_by_ids(db, item_ids)
    IN IF restaurant = PyNone
       THEN <<HTTPException(404, "Restaurant not found")>>
       ELSE IF Cardinality(items_data) # Len(item_ids)
       THEN <<HTTPException(400, "One or more items not found or invalid")>>
       ELSE LET missing == {i \in 1..Len(item_ids) :
                               item_ids[i] \notin DOMAIN ItemsMap(items_data)}
            IN IF missing # {}
               THEN <<ItemNotFound(
                        item_ids[CHOOSE i \in missing : \A j \in missing : i <= j])>>
               ELSE <<>>

\* The fee reported as a number also when it is zero.
delivery_fee_field_NeverNull(delivery_fee) ==
    {Some(x) : x \in round2(delivery_fee)}

\* round(delivery_fee, 2) if delivery_fee else None
delivery_fee_field(delivery_fee) ==
    IF delivery_fee # 0 THEN {Some(x) : x \in round2(delivery_fee)} ELSE {Null}

\* A handler whose general except clause caught the HTTPException as well.
except_Exception(exc) == HTTPException(500, "Error")

\* except HTTPException: raise
except_HTTPException(exc) == exc

\* build_cart: the responses the handler may give.
build_cart(db, request) ==
    LET failure == LookupFailure(db, request)
    IN IF failure # <<>> THEN {except_HTTPException(failure[1])}
       ELSE
        LET restaurant == get_restaurant_by_id(db, request.restaurant_id)
            items_map == ItemsMap(get_items_by_ids(db, ItemIdsOf(request)))
            items == CartLines(request, items_map)
            subtotal == SumOfSubtotals(items)
            delivery_fee == Amount(parse_delivery_fee(restaurant.delivery_fee))
            total == subtotal + delivery_fee
        IN { [status_code |-> 200,
              restaurant_id |-> request.restaurant_id,
              items |-> items,
              subtotal |-> s,
              delivery_fee |-> f,
              total |-> t] :
             s \in round2(subtotal),
             f \in delivery_fee_field(delivery_fee),
             t \in round2(total) }

\* tax_rate = 0.085
tax_rate_per_mille == 85

\* subtotal * tax_rate, in millionths (the thousands are multiplied apart to
\* stay within the machine integers).
times_tax_rate(subtotal) ==
    (subtotal \div 1000) * tax_rate_per_mille
        + ((subtotal % 1000) * tax_rate_per_mille) \div 1000

\* The total as the sum of the subtotal, the fee and the tax cut to cents.
estimated_total_OfRoundedTax(subtotal, delivery_fee, estimated_tax) ==
    subtotal + delivery_fee
        + (estimated_tax \div (Micro \div 100)) * (Micro \div 100)

\* estimated_total = subtotal + delivery_fee + estimated_tax
estimated_total(subtotal, delivery_fee, estimated_tax) ==
    subtotal + delivery_fee + estimated_tax

\* compute_cost_estimate: the responses the handler may give.
compute_cost_estimate(db, request) ==
    LET failure == LookupFailure(db, request)
    IN IF failure # <<>> THEN {except_HTTPException(failure[1])}
       ELSE
        LET restaurant == get_restaurant_by_id(db, request.restaurant_id)
            items_map == ItemsMap(get_items_by_ids(db, ItemIdsOf(request)))
            subtotal == SumOfSubtotals(CartLines(request, items_map))
            delivery_fee == Amount(parse_delivery_fee(restaurant.delivery_fee))
            estimated_tax == times_tax_rate(subtotal)
            total == estimated_total(subtotal, delivery_fee, estimated_tax)
        IN { [status_code |-> 200,
              subtotal |-> s,
              delivery_fee |-> f,
              estimated_total |-> t,
              estimated_tax |-> x] :
             s \in round2(subtotal),
             f \in delivery_fee_field(delivery_fee),
             t \in round2(total),
             x \in round2(estimated_tax) }

\* MenuItemResponse(**item): the document with its price normalized.
MenuItemResponse(item) ==
    [_id |-> item._id, price |-> MenuItemResponse_parse_price(item.price)]

\* get_menu: the restaurant is looked up first, then its items.
get_menu(db, restaurant_id) ==
    LET restaurant == get_restaurant_by_id(db, restaurant_id)
    IN IF restaurant = PyNone
       THEN except_HTTPException(HTTPException(404, "Restaurant not found"))
       ELSE LET items == {MenuItemResponse(item) :
                             item \in get_menu_items(db, restaurant_id)}
            IN IF \E item \in items : item.price.kind = "raises"
               THEN HTTPException(500, "Error fetching menu")
               ELSE [status_code |-> 200,
                     restaurant_id |-> restaurant_id,
                     items |-> items,
                     total_items |-> Cardinality(items)]

\* get_item: an exception that is no HTTPException becomes a 500.
get_item(db, item_id) ==
    LET item_data == get_item_by_id(db, item_id)
    IN IF "kind" \in DOMAIN item_data /\ item_data.kind = "raises"
       THEN HTTPException(500, "Error fetching item")
       ELSE IF item_data = PyNone
       THEN except_HTTPException(HTTPException(404, "Item not found"))
       ELSE LET item == MenuItemResponse(item_data)
            IN IF item.price.kind = "raises"
               THEN HTTPException(500, "Error fetching item")
               ELSE [status_code |-> 200, item |-> item]

CartRequests ==
    UNION { [restaurant_id : RestaurantIds,
             items : [1..len -> [item_id : ItemIds, quantity : Quantities]]] :
            len \in 1..MaxItems }

InitCart ==
    /\ AgentAtRest
    /\ probe \in
        { [pc |-> "called", endpoint |-> e, request |-> req,
           db |-> [restaurants |-> RestaurantsCollection(fee),
                   items |-> ItemsCollection, fails |-> q],
           returned |-> NoResponse] :
          e \in {"build_cart", "compute_cost_estimate"}, req \in CartRequests,
          fee \in StoredFees, q \in QueryFailures }
        \cup
        { [pc |-> "called", endpoint |-> "get_menu",
           request |-> [restaurant_id |-> id],
           db |-> [restaurants |-> RestaurantsCollection(fee),
                   items |-> ItemsCollection, fails |-> q],
           returned |-> NoResponse] :
          id \in RestaurantIds, fee \in StoredFees, q \in QueryFailures }
        \cup
        { [pc |-> "called", endpoint |-> "get_item",
           request |-> [item_id |-> id],
           db |-> [restaurants |-> RestaurantsCollection(fee),
                   items |-> ItemsCollection, fails |-> q],
           returned |-> NoResponse] :
          id \in ItemIds, fee \in StoredFees, q \in QueryFailures }

build_cart_returns ==
    /\ probe.pc = "called"
    /\ probe.endpoint = "build_cart"
    /\ \E result \in build_cart(probe.db, probe.request) :
          probe' = [probe EXCEPT !.pc = "returned", !.returned = result]
    /\ UNCHANGED agent_vars

compute_cost_estimate_returns ==
    /\ probe.pc = "called"
    /\ probe.endpoint = "compute_cost_estimate"
    /\ \E result \in compute_cost_estimate(probe.db, probe.request) :
          probe' = [probe EXCEPT !.pc = "returned", !.returned = result]
    /\ UNCHANGED agent_vars

get_menu_returns ==
    /\ probe.pc = "called"
    /\ probe.endpoint = "get_menu"
    /\ probe' = [probe EXCEPT
           !.pc = "returned",
           !.returned = get_menu(probe.db, probe.request.restaurant_id)]
    /\ UNCHANGED agent_vars

get_item_returns ==
    /\ probe.pc = "called"
    /\ probe.endpoint = "get_item"
    /\ probe' = [probe EXCEPT
           !.pc = "returned",
           !.returned = get_item(probe.db, probe.request.item_id)]
    /\ UNCHANGED agent_vars

NextCart ==
    \/ build_cart_returns
    \/ compute_cost_estimate_returns
    \/ get_menu_returns
    \/ get_item_returns

SpecCart == InitCart /\ [][NextCart]_vars

\* -------------------------------------------- doordash.py: the delivery proxy
\* External delivery ids.
MaxDeliveries == 2

\* What the DoorDash API may answer: a status with a body (a delivery
\* document or a text), or nothing (a timeout, a broken connection).
UpstreamStatusCodes == {200, 201, 202, 204, 400, 401, 404, 409, 422, 429, 500, 503}

UpstreamBodies ==
    {[kind |-> "delivery"], [kind |-> "text", text |-> 1], [kind |-> "text", text |-> 2]}

UpstreamResponses ==
    [kind : {"response"}, status_code : UpstreamStatusCodes, body : UpstreamBodies]
        \cup {[kind |-> "no_response"]}

\* DoorDashDeliveryResponse(**response.json()): the model of a delivery
\* document; a body that is not one raises.
DoorDashDeliveryResponse(body) ==
    IF body.kind = "delivery"
    THEN [status_code |-> 200, delivery |-> body]
    ELSE Raises("Exception")

\* The except clauses of the two handlers: an HTTPException passes, anything
\* else becomes a 500.
DoorDashOutcome(result, what) ==
    IF "kind" \in DOMAIN result /\ result.kind = "raises"
    THEN HTTPException(500, [text |-> what])
    ELSE result

doordash_create_delivery(credentials, upstream) ==
    IF ~credentials
    THEN HTTPException(500, [text |-> "Missing required DoorDash credentials"])
    ELSE IF upstream.kind = "no_response"
    THEN HTTPException(500, [text |-> "Error communicating with DoorDash API"])
    ELSE IF upstream.status_code = 201 \/ upstream.status_code = 200
    THEN DoorDashOutcome(DoorDashDeliveryResponse(upstream.body),
                         "Unexpected error creating delivery")
    ELSE HTTPException(upstream.status_code,
                       [text |-> "DoorDash API error", body |-> upstream.body])

\* The branches with the 404 taken as any other status.
TrackFailure_No404(external_delivery_id, upstream) ==
    HTTPException(upstream.status_code,
                  [text |-> "DoorDash API error", body |-> upstream.body])

\* The elif and else branches of the tracking handler.
TrackFailure(external_delivery_id, upstream) ==
    IF upstream.status_code = 404
    THEN HTTPException(404, [text |-> "Delivery not found",
                             external_delivery_id |-> external_delivery_id])
    ELSE HTTPException(upstream.status_code,
                       [text |-> "DoorDash API error", body |-> upstream.body])

doordash_track_delivery_status(external_delivery_id, credentials, upstream) ==
    IF ~credentials
    THEN HTTPException(500, [text |-> "Missing required DoorDash credentials"])
    ELSE IF upstream.kind = "no_response"
    THEN HTTPException(500, [text |-> "Error communicating with DoorDash API"])
    ELSE IF upstream.status_code = 200
    THEN DoorDashOutcome(DoorDashDeliveryResponse(upstream.body),
                         "Unexpected error tracking delivery")
    ELSE TrackFailure(external_delivery_id, upstream)

\* The requests a handler has sent to the DoorDash API when it returns:
\* get_jwt_token raises before requests.post and requests.get are reached.
OutboundRequests(credentials) == IF credentials THEN 1 ELSE 0

InitDoorDash ==
    /\ AgentAtRest
    /\ probe \in
        { [pc |-> "called", endpoint |-> e, external_delivery_id |-> id,
           credentials |-> c, upstream |-> u, requests |-> 0,
           returned |-> NoResponse] :
          e \in {"doordash_create_delivery", "doordash_track_delivery_status"},
          id \in 1..MaxDeliveries, c \in BOOLEAN, u \in UpstreamResponses }

doordash_create_delivery_returns ==
    /\ probe.pc = "called"
    /\ probe.endpoint = "doordash_create_delivery"
    /\ probe' = [probe EXCEPT
           !.pc = "returned",
           !.requests = OutboundRequests(probe.credentials),
           !.returned = doordash_create_delivery(probe.credentials, probe.upstream)]
    /\ UNCHANGED agent_vars

doordash_track_delivery_status_returns ==
    /\ probe.pc = "called"
    /\ probe.endpoint = "doordash_track_delivery_status"
    /\ probe' = [probe EXCEPT
           !.pc = "returned",
           !.requests = OutboundRequests(probe.credentials),
           !.returned = doordash_track_delivery_status(
                            probe.external_delivery_id, probe.credentials,
                            probe.upstream)]
    /\ UNCHANGED agent_vars

NextDoorDash ==
    \/ doordash_create_delivery_returns
    \/ doordash_track_delivery_status_returns

SpecDoorDash == InitDoorDash /\ [][NextDoorDash]_vars

\* ----------------------------------------- the secrets of the two routers
\* One chat request and one call of the delivery proxy, each with and
\* without its secret in the environment.
InitSecrets ==
    /\ conversation_threads = << >>
    /\ api_key \in BOOLEAN
    /\ frame = [r \in Requests |-> IdleFrame]
    /\ response = [r \in Requests |-> NoResponse]
    /\ served = 0
    /\ env = [turns |-> 1, threads |-> {1}, texts |-> 0, varied_rounds |-> 0]
    /\ probe \in
        { [pc |-> "called", endpoint |-> e, external_delivery_id |-> 1,
           credentials |-> c, upstream |-> u, requests |-> 0,
           returned |-> NoResponse] :
          e \in {"doordash_create_delivery", "doordash_track_delivery_status"},
          c \in BOOLEAN,
          u \in {[kind |-> "no_response"],
                 [kind |-> "response", status_code |-> 200,
                  body |-> [kind |-> "delivery"]]} }

NextSecrets == Next \/ NextDoorDash

SpecSecrets == InitSecrets /\ [][NextSecrets]_vars

\* ------------------------------------------- properties: cart and estimate
CartReturned ==
    /\ probe.pc = "returned"
    /\ "db" \in DOMAIN probe
    /\ probe.endpoint \in {"build_cart", "compute_cost_estimate"}

\* The request lines whose item id names no document of the collection (an
\* absent item or a malformed id).
Resolves(item_id) ==
    /\ ~InvalidId(item_id)
    /\ \E k \in DOMAIN probe.db.items : probe.db.items[k]._id = ObjectId(item_id)

UnresolvedLines ==
    {i \in 1..Len(probe.request.items) : ~Resolves(probe.request.items[i].item_id)}

\* C11: build_cart and compute_cost_estimate answer 404 "Restaurant not
\* found" whenever the request's restaurant id names no restaurant document
\* (absent or malformed), whatever the items are: also when items do not
\* resolve, the answer is 404 and not 400.
C11_AbsentRestaurantIs404 ==
    (CartReturned /\ probe.request.restaurant_id \notin DOMAIN probe.db.restaurants)
        => /\ probe.returned.status_code = 404
           /\ probe.returned.detail = "Restaurant not found"

\* A request whose restaurant is absent and whose items do not resolve
\* either was answered 404.
C11_AbsentRestaurantAndItems ==
    /\ CartReturned
    /\ probe.db.fails = "none"
    /\ probe.request.restaurant_id \notin DOMAIN probe.db.restaurants
    /\ probe.request.restaurant_id # MalformedId
    /\ UnresolvedLines = 1..Len(probe.request.items)
    /\ probe.returned.status_code = 404

\* C12: when the restaurant is found, a cart or cost-estimate request with at
\* least one item id that does not resolve (absent item or malformed id) is
\* answered 400, never 500.
C12_UnresolvedItemIs400 ==
    (/\ CartReturned
     /\ probe.request.restaurant_id \in DOMAIN probe.db.restaurants
     /\ probe.db.fails # "restaurants"
     /\ UnresolvedLines # {})
        => probe.returned.status_code = 400

\* A request with a resolving line and a malformed item id was answered 400.
C12_MalformedItemAnswered400 ==
    /\ CartReturned
    /\ probe.db.fails = "none"
    /\ probe.request.restaurant_id \in DOMAIN probe.db.restaurants
    /\ \E i \in UnresolvedLines : probe.request.items[i].item_id = MalformedId
    /\ UnresolvedLines # 1..Len(probe.request.items)
    /\ probe.returned.status_code = 400

\* A request that passed the lookups and was answered with a result.
CartAnswered(endpoint) ==
    /\ CartReturned
    /\ probe.endpoint = endpoint
    /\ probe.returned.status_code = 200

\* x is a whole number of cents and lies within half a cent of exact.
NearestCent(x, exact) ==
    /\ x % (Micro \div 100) = 0
    /\ 2 * (x - exact) <= Micro \div 100
    /\ 2 * (exact - x) <= Micro \div 100

\* The normalized unit price of the i-th request line and the normalized fee
\* of the request's restaurant, in millionths of a dollar.
UnitPrice(i) ==
    Amount(parse_price(probe.db.items[probe.request.items[i].item_id].price))

NormalizedFee ==
    Amount(parse_delivery_fee(
              probe.db.restaurants[probe.request.restaurant_id].delivery_fee))

\* The sum over the first n request lines of unit price times quantity.
RECURSIVE ExactSubtotal(_)
ExactSubtotal(n) ==
    IF n = 0 THEN 0
    ELSE ExactSubtotal(n - 1) + UnitPrice(n) * probe.request.items[n].quantity

\* C13: a successful build_cart answers one line per request line, in the
\* order of the request, each with the normalized unit price and the subtotal
\* unit price times quantity; the cart subtotal is the sum of the line
\* subtotals and the total is that sum plus the normalized delivery fee, each
\* rounded to 2 decimals.
C13_CartArithmetic ==
    CartAnswered("build_cart") =>
        LET lines == probe.returned.items
            n == Len(probe.request.items)
        IN /\ Len(lines) = n
           /\ \A i \in 1..n :
                 /\ lines[i].item_id = probe.request.items[i].item_id
                 /\ lines[i].quantity = probe.request.items[i].quantity
                 /\ lines[i].price = UnitPrice(i)
                 /\ lines[i].subtotal = UnitPrice(i) * lines[i].quantity
           /\ NearestCent(probe.returned.subtotal, ExactSubtotal(n))
           /\ NearestCent(probe.returned.total, ExactSubtotal(n) + NormalizedFee)

\* 12.99 x 2 and 5.00 x 1 with the fee "$2.99 delivery": subtotal 30.98,
\* fee 2.99, total 33.97.
C13_WorkedExample ==
    /\ CartAnswered("build_cart")
    /\ probe.request.items = <<[item_id |-> 1, quantity |-> 2],
                               [item_id |-> 2, quantity |-> 1]>>
    /\ probe.db.restaurants[1].delivery_fee = PyStr(Text_2_99_delivery)
    /\ probe.returned.items[1].subtotal = 25980000
    /\ probe.returned.items[2].subtotal = 5000000
    /\ probe.returned.subtotal = 30980000
    /\ probe.returned.delivery_fee = Some(2990000)
    /\ probe.returned.total = 33970000

\* The total that a result reports and the exact total it rounds.
ReportedTotal ==
    IF probe.endpoint = "build_cart" THEN probe.returned.total
    ELSE probe.returned.estimated_total

\* 8.5 % of x, by the fraction 17/200.
EightAndAHalfPercent(x) == (x \div 200) * 17 + ((x % 200) * 17) \div 200

ExactTotal ==
    LET subtotal == ExactSubtotal(Len(probe.request.items))
    IN IF probe.endpoint = "build_cart" THEN subtotal + NormalizedFee
       ELSE subtotal + NormalizedFee + EightAndAHalfPercent(subtotal)

\* C14: in the cart and the cost estimate the delivery fee is null exactly
\* when the restaurant's normalized fee is zero (a missing, zero or
\* unparseable stored fee) and is otherwise the normalized fee rounded to 2
\* decimals; the total includes the normalized fee in both cases.
C14_DeliveryFeeField ==
    (CartAnswered("build_cart") \/ CartAnswered("compute_cost_estimate")) =>
        /\ probe.returned.delivery_fee = Null <=> NormalizedFee = 0
        /\ NormalizedFee # 0 =>
              /\ Len(probe.returned.delivery_fee) = 1
              /\ NearestCent(probe.returned.delivery_fee[1], NormalizedFee)
        /\ NearestCent(ReportedTotal, ExactTotal)

\* A restaurant whose stored fee has no number in it: the fee is null and
\* the cart's total is its subtotal.
C14_UnparseableFeeOmitted ==
    /\ CartAnswered("build_cart")
    /\ probe.db.restaurants[1].delivery_fee = PyStr(Text_Free_delivery)
    /\ probe.returned.delivery_fee = Null
    /\ probe.returned.total = probe.returned.subtotal

\* C15: compute_cost_estimate reports the subtotal, the tax of 8.5 % of the
\* unrounded subtotal and the total of the unrounded subtotal, fee and tax,
\* each rounded to 2 decimals on its own.
C15_EstimateArithmetic ==
    CartAnswered("compute_cost_estimate") =>
        LET subtotal == ExactSubtotal(Len(probe.request.items))
            tax == EightAndAHalfPercent(subtotal)
        IN /\ NearestCent(probe.returned.subtotal, subtotal)
           /\ NearestCent(probe.returned.estimated_tax, tax)
           /\ NearestCent(probe.returned.estimated_total,
                          subtotal + NormalizedFee + tax)

\* One item of 5.00 and no fee: tax 0.425 is reported as 0.43 and the total
\* 5.425 as 5.42, a cent less than the sum of the reported fields.
C15_TotalOffByACent ==
    /\ CartAnswered("compute_cost_estimate")
    /\ probe.request.items = <<[item_id |-> 2, quantity |-> 1]>>
    /\ probe.returned.subtotal = 5000000
    /\ probe.returned.delivery_fee = Null
    /\ probe.returned.estimated_tax = 430000
    /\ probe.returned.estimated_total = 5420000

\* --------------------------------------------- properties: normalization
Normalized == "function" \in DOMAIN probe /\ probe.pc \in {"returned", "renormalized"}

CalculationParsers == {"parse_price", "parse_delivery_fee"}
ModelValidators ==
    {"MenuItemResponse.parse_price", "RestaurantResponse.parse_delivery_fee"}

\* The number an int or a float stands for.
NumberOf(value) ==
    IF value.kind = "int" THEN [whole |-> value.n, frac |-> 0]
    ELSE [whole |-> value.whole, frac |-> value.frac]

\* C16: the price and fee normalizers (parse_price and parse_delivery_fee of
\* the handlers, and the validators of the response models) return a number
\* as the same number, and applied to their own result return that result.
C16_NormalizationIdempotent ==
    (Normalized /\ probe.function \in CalculationParsers \cup ModelValidators) =>
        /\ probe.value.kind \in {"int", "float"} =>
              /\ probe.returned.kind = "float"
              /\ NumberOf(probe.returned) = NumberOf(probe.value)
        /\ probe.pc = "renormalized" => probe.again = probe.returned

\* A text was normalized to a number, and that number again to itself.
C16_NumberFromTextKept ==
    /\ Normalized
    /\ probe.pc = "renormalized"
    /\ probe.function = "parse_delivery_fee"
    /\ probe.value = PyStr(Text_2_99_delivery)
    /\ probe.returned = PyFloat(2, 990000)
    /\ probe.again = PyFloat(2, 990000)

HasDigit(text) == \E i \in 1..Len(text) : text[i] \in Digits

\* The text from its first digit on, and the digits a text starts with.
RECURSIVE FromFirstDigit(_)
FromFirstDigit(text) ==
    IF text = <<>> \/ Head(text) \in Digits THEN text
    ELSE FromFirstDigit(Tail(text))

RECURSIVE LeadingDigits(_)
LeadingDigits(text) ==
    IF text = <<>> \/ Head(text) \notin Digits THEN <<>>
    ELSE <<Head(text)>> \o LeadingDigits(Tail(text))

\* The first numeric token of a text with a digit: its first run of digits
\* and, when a point follows the run, the digits after the point.
FirstNumber(text) ==
    LET t == FromFirstDigit(text)
        whole == LeadingDigits(t)
        rest == SubSeq(t, Len(whole) + 1, Len(t))
        decimals == IF rest # <<>> /\ Head(rest) = "."
                    THEN LeadingDigits(Tail(rest)) ELSE <<>>
        frac == IF Len(decimals) > 6 THEN SubSeq(decimals, 1, 6) ELSE decimals
    IN [whole |-> DigitsToNat(whole),
        frac |-> DigitsToNat(frac) * Pow10(6 - Len(frac))]

\* C17: price and fee normalization never raises for None, a number or a
\* text; for a text without a digit the parsers of the handlers return 0.0
\* and the validators of the models return the text itself; for a text with
\* a numeric token both return that number.
C17_NormalizationFailsSoft ==
    (/\ Normalized
     /\ probe.function \in CalculationParsers \cup ModelValidators
     /\ probe.value.kind \in {"none", "int", "float", "str"}) =>
        /\ probe.returned.kind # "raises"
        /\ probe.value.kind = "str" =>
              IF HasDigit(probe.value.chars)
              THEN /\ probe.returned.kind = "float"
                   /\ NumberOf(probe.returned) = FirstNumber(probe.value.chars)
              ELSE IF probe.function \in CalculationParsers
              THEN probe.returned = PyFloat(0, 0)
              ELSE probe.returned = probe.value

\* The validator of the menu item's price returned "free" as it is.
C17_ValidatorKeepsText ==
    /\ Normalized
    /\ probe.function = "MenuItemResponse.parse_price"
    /\ probe.value = PyStr(Text_free)
    /\ probe.returned = PyStr(Text_free)

\* The text without the parentheses at its two ends.
RECURSIVE WithoutLeadingParens(_)
WithoutLeadingParens(text) ==
    IF text = <<>> \/ Head(text) \notin {"(", ")"} THEN text
    ELSE WithoutLeadingParens(Tail(text))

Reverse(text) == [i \in 1..Len(text) |-> text[Len(text) + 1 - i]]

Unparenthesized(text) ==
    Reverse(WithoutLeadingParens(Reverse(WithoutLeadingParens(text))))

HasKPlus(text) ==
    \E i \in 1..(Len(text) - 1) : text[i] \in {"k", "K"} /\ text[i + 1] = "+"

\* C18: the rating count of an integer is that integer; of a text, with the
\* parentheses at its ends stripped: when it contains "k+" and a digit, the
\* first decimal times 1000 cut to an integer, otherwise its first run of
\* digits as an integer.
C18_RatingCount ==
    (Normalized /\ probe.function = "RestaurantResponse.parse_number_of_ratings") =>
        /\ probe.value.kind = "int" => probe.returned = probe.value
        /\ (probe.value.kind = "str" /\ HasDigit(probe.value.chars)) =>
              LET text == Unparenthesized(probe.value.chars)
                  d == FirstNumber(text)
              IN IF HasKPlus(text)
                 THEN probe.returned = PyInt(d.whole * 1000 + d.frac \div 1000)
                 ELSE probe.returned = PyInt(d.whole)

\* "(3k+)" gave 3000.
C18_ThreeThousand ==
    /\ Normalized
    /\ probe.function = "RestaurantResponse.parse_number_of_ratings"
    /\ probe.value = PyStr(Text_3k_plus)
    /\ probe.returned = PyInt(3000)

\* The rating counts apart from the texts whose decimal times 1000 is not
\* an integer in binary64.
C18_RatingCountOfExactProducts ==
    (/\ Normalized
     /\ probe.function = "RestaurantResponse.parse_number_of_ratings"
     /\ probe.value.kind = "str"
     /\ HasDigit(probe.value.chars)
     /\ HasKPlus(Unparenthesized(probe.value.chars))
     /\ probe.returned
           # PyInt(FirstNumber(Unparenthesized(probe.value.chars)).whole * 1000
                   + FirstNumber(Unparenthesized(probe.value.chars)).frac \div 1000))
        => /\ probe.value.chars = Text_32_3k_plus
           /\ probe.returned = PyInt(32299)

\* ------------------------------------------ properties: the delivery proxy
\* A call that reached the DoorDash API and got a response with a status.
UpstreamAnswered(endpoint) ==
    /\ probe.pc = "returned"
    /\ "upstream" \in DOMAIN probe
    /\ probe.endpoint = endpoint
    /\ probe.credentials
    /\ probe.upstream.kind = "response"

Is2xx(status_code) == status_code \in 200..299

\* C19: tracking a delivery for which the DoorDash API answers 404 gives a
\* 404 whose detail says not found and names the external delivery id; every
\* other non-2xx answer gives an error with the upstream status and body,
\* which is never the not-found outcome.
C19_TrackNotFoundIsDistinct ==
    UpstreamAnswered("doordash_track_delivery_status") =>
        /\ probe.upstream.status_code = 404 =>
              /\ probe.returned.status_code = 404
              /\ probe.returned.detail =
                    [text |-> "Delivery not found",
                     external_delivery_id |-> probe.external_delivery_id]
        /\ (~Is2xx(probe.upstream.status_code) /\ probe.upstream.status_code # 404) =>
              /\ probe.returned.status_code = probe.upstream.status_code
              /\ probe.returned.status_code # 404
              /\ probe.returned.detail =
                    [text |-> "DoorDash API error", body |-> probe.upstream.body]

\* An upstream 404 was answered as not found, with the id.
C19_TrackedDeliveryNotFound ==
    /\ UpstreamAnswered("doordash_track_delivery_status")
    /\ probe.upstream.status_code = 404
    /\ probe.external_delivery_id = 2
    /\ probe.returned.status_code = 404
    /\ probe.returned.detail.external_delivery_id = 2

\* C20: creating a delivery, every non-2xx answer of the DoorDash API becomes
\* an error with the upstream status and body, and every 2xx answer with a
\* delivery document is returned as the delivery.
C20_CreateDeliveryOutcomes ==
    UpstreamAnswered("doordash_create_delivery") =>
        /\ ~Is2xx(probe.upstream.status_code) =>
              /\ probe.returned.status_code = probe.upstream.status_code
              /\ probe.returned.detail =
                    [text |-> "DoorDash API error", body |-> probe.upstream.body]
        /\ (Is2xx(probe.upstream.status_code) /\ probe.upstream.body.kind = "delivery") =>
              /\ "delivery" \in DOMAIN probe.returned
              /\ probe.returned.delivery = probe.upstream.body

\* The same with success for the answers 200 and 201 only: every other
\* status, 202 and 204 included, becomes an error with that status.
C20_CreateDeliveryOn200And201 ==
    UpstreamAnswered("doordash_create_delivery") =>
        IF probe.upstream.status_code \in {200, 201}
        THEN probe.upstream.body.kind = "delivery" =>
                probe.returned = [status_code |-> 200, delivery |-> probe.upstream.body]
        ELSE /\ probe.returned.status_code = probe.upstream.status_code
             /\ probe.returned.detail =
                   [text |-> "DoorDash API error", body |-> probe.upstream.body]

\* An upstream 202 with a delivery document came back as an error.
C20_AcceptedIsAnError ==
    /\ UpstreamAnswered("doordash_create_delivery")
    /\ probe.upstream.status_code = 202
    /\ probe.upstream.body.kind = "delivery"
    /\ probe.returned.status_code = 202
    /\ "detail" \in DOMAIN probe.returned

\* ------------------------------------------- properties: lookups by identifier
\* An endpoint of restaurants.py has answered.
LookupReturned(endpoint) ==
    /\ probe.pc = "returned"
    /\ "db" \in DOMAIN probe
    /\ probe.endpoint = endpoint

\* Lists of item ids of which one is malformed.
ListsWithMalformedId ==
    {ids \in UNION {[1..len -> ItemIds] : len \in 1..MaxItems} :
        \E i \in 1..Len(ids) : ids[i] = MalformedId}

\* C21: the lookups of the database layer swallow the error of a malformed
\* identifier (get_restaurant_by_id and get_item_by_id return None,
\* get_items_by_ids and get_menu_items nothing), so the endpoints answer a
\* malformed restaurant or item id with 404 not found, a malformed item id of
\* a cart on a found restaurant with 400, and never with 500.
C21_MalformedIdIsNotFound ==
    (probe.pc = "returned" /\ "db" \in DOMAIN probe) =>
        /\ get_restaurant_by_id(probe.db, MalformedId) = PyNone
        /\ get_item_by_id(probe.db, MalformedId) = PyNone
        /\ get_menu_items(probe.db, MalformedId) = {}
        /\ \A ids \in ListsWithMalformedId : get_items_by_ids(probe.db, ids) = {}
        /\ probe.returned.status_code # 500
        /\ (LookupReturned("get_menu") /\ probe.request.restaurant_id = MalformedId)
              => probe.returned = HTTPException(404, "Restaurant not found")
        /\ (LookupReturned("get_item") /\ probe.request.item_id = MalformedId)
              => probe.returned = HTTPException(404, "Item not found")
        /\ (CartReturned /\ probe.request.restaurant_id = MalformedId)
              => probe.returned = HTTPException(404, "Restaurant not found")
        /\ (/\ CartReturned
            /\ get_restaurant_by_id(probe.db, probe.request.restaurant_id) # PyNone
            /\ \E i \in 1..Len(probe.request.items) :
                  probe.request.items[i].item_id = MalformedId)
              => probe.returned.status_code = 400

\* A malformed item id was answered 404 by get_item while the database was
\* reachable.
C21_MalformedItemIdAnswered404 ==
    /\ LookupReturned("get_item")
    /\ probe.db.fails = "none"
    /\ probe.request.item_id = MalformedId
    /\ probe.returned.status_code = 404

\* ------------------------------------------ properties: resolving the lines
\* A cart or estimate request whose restaurant was found while the database
\* was reachable.
OnFoundRestaurant ==
    /\ CartReturned
    /\ probe.db.fails = "none"
    /\ get_restaurant_by_id(probe.db, probe.request.restaurant_id) # PyNone

\* The batch count check of the two handlers passes.
CountCheckPasses ==
    Cardinality(get_items_by_ids(probe.db, ItemIdsOf(probe.request)))
        = Len(probe.request.items)

\* C27: a build_cart or cost-estimate request on an existing restaurant
\* succeeds whenever every item id of the request resolves to an existing
\* item, also when the same item id is on more than one line.
C27_ResolvingRequestSucceeds ==
    (OnFoundRestaurant /\ UnresolvedLines = {})
        => probe.returned.status_code = 200

\* The same for requests whose item ids are distinct and spelled in lower
\* case, the spelling of the identifiers the endpoints hand out.
C27_DistinctLowerCaseRequestSucceeds ==
    (/\ OnFoundRestaurant
     /\ UnresolvedLines = {}
     /\ \A i, j \in 1..Len(probe.request.items) :
           /\ probe.request.items[i].item_id > 0
           /\ i # j => probe.request.items[i].item_id # probe.request.items[j].item_id)
        => probe.returned.status_code = 200

\* C28: when the batch count check passes, the lookup of every request line
\* in the id-to-item map succeeds, and the error that names one missing item
\* id is never produced.
C28_PerItemErrorNeverProduced ==
    CartReturned =>
        /\ "item_id" \notin DOMAIN probe.returned
        /\ (OnFoundRestaurant /\ CountCheckPasses) =>
              \A i \in 1..Len(probe.request.items) :
                  probe.request.items[i].item_id \in
                      DOMAIN ItemsMap(get_items_by_ids(probe.db, ItemIdsOf(probe.request)))

\* The same for requests whose item ids are spelled in lower case.
C28_PerItemErrorOfLowerCaseIds ==
    (CartReturned /\ \A i \in 1..Len(probe.request.items) :
                        probe.request.items[i].item_id >= 0) =>
        /\ "item_id" \notin DOMAIN probe.returned
        /\ (OnFoundRestaurant /\ CountCheckPasses) =>
              \A i \in 1..Len(probe.request.items) :
                  probe.request.items[i].item_id \in
                      DOMAIN ItemsMap(get_items_by_ids(probe.db, ItemIdsOf(probe.request)))

\* ------------------------------------------- agent.py: one tool call in detail
\* Documents the collection holds (restaurants, or items of a menu).
MaxDocuments == 60
\* Characters of one document in JSON.
MaxDocumentChars == 4999
\* The largest limit the hosted model asks for.
MaxAskedLimit == 100

\* truncate_large_content(result_json, max_length=5000)
tool_content_max_length == 5000
\* min(arguments.get("limit", 10), 50)
default_limit == 10
max_limit == 50
\* result["restaurants"][:10] and result["items"][:20]
max_restaurants == 10
max_items == 20

TruncationMarker ==
    << "\n", "\n", "[", "C", "o", "n", "t", "e", "n", "t", " ", "t", "r", "u",
       "n", "c", "a", "t", "e", "d", " ", "d", "u", "e", " ", "t", "o", " ",
       "l", "e", "n", "g", "t", "h", ".", ".", ".", "]" >>

\* A function that returns its content whole.
truncate_large_content_Whole(content, max_length) == content

\* content is a text here: json.dumps returns a str.
truncate_large_content(content, max_length) ==
    IF Len(content) > max_length
    THEN SubSeq(content, 1, max_length) \o TruncationMarker
    ELSE content

\* min(a, b) of Python on the values of a JSON object: a value that is no
\* number does not compare with an int.
python_min(a, b) ==
    IF a.kind # "int" THEN Raises("TypeError")
    ELSE IF a.n < b THEN a ELSE PyInt(b)

\* arguments.get(key, default)
dict_get(arguments, key, default) ==
    IF key \in DOMAIN arguments THEN arguments[key] ELSE default

\* The documents of a collection: each is a number of characters in JSON.
Documents(count, chars) == [i \in 1..count |-> [doc |-> i, chars |-> chars]]

\* db.find({}).limit(limit).skip(skip): a limit of 0 is no limit, a negative
\* limit is the limit of its absolute value.
list_restaurants(collection, limit, skip) ==
    LET skipped == IF skip >= Len(collection) THEN <<>>
                   ELSE SubSeq(collection, skip + 1, Len(collection))
        n == IF limit < 0 THEN 0 - limit ELSE limit
    IN IF n = 0 THEN skipped ELSE SliceFirst(skipped, n)

\* restaurant_service.list_restaurants: the response of the REST endpoint as
\* a dict.
restaurant_service_list_restaurants(collection, limit, skip) ==
    [restaurants |-> list_restaurants(collection, limit, skip),
     total |-> Len(collection), limit |-> limit, skip |-> skip]

\* restaurant_service.get_restaurant_menu: the response of the REST endpoint
\* as a dict, or its 404.
restaurant_service_get_restaurant_menu(collection, restaurant_id) ==
    IF restaurant_id # 1
    THEN [raises |-> "http_exception"]
    ELSE [restaurant_id |-> restaurant_id, items |-> collection,
          total_items |-> Len(collection)]

\* The list_restaurants branch of execute_function_call, with the except
\* clause that catches the TypeError of min.
execute_list_restaurants(arguments, collection) ==
    LET limit == python_min(dict_get(arguments, "limit", PyInt(default_limit)),
                            max_limit)
        skip == dict_get(arguments, "skip", 0)
    IN IF limit.kind = "raises"
       THEN UnexpectedError
       ELSE LET result == restaurant_service_list_restaurants(collection, limit.n, skip)
            IN IF Len(result.restaurants) > max_restaurants
               THEN [result EXCEPT
                        !.restaurants = SliceFirst(@, max_restaurants),
                        !.total = IF @ < max_restaurants THEN @ ELSE max_restaurants]
               ELSE result

\* The get_restaurant_menu branch of execute_function_call, with the except
\* clause for the service's HTTPException.
execute_get_restaurant_menu(arguments, collection) ==
    IF "restaurant_id" \notin DOMAIN arguments
    THEN [error |-> "id is required"]
    ELSE LET result == restaurant_service_get_restaurant_menu(collection,
                                                                arguments.restaurant_id)
         IN IF "raises" \in DOMAIN result
            THEN [error |-> "detail", error_type |-> "http_exception",
                  status_code |-> "status"]
            ELSE IF Len(result.items) > max_items
            THEN [result EXCEPT
                     !.items = SliceFirst(@, max_items),
                     !.total_items = IF @ < max_items THEN @ ELSE max_items]
            ELSE result

\* The documents a result lists.
ListedDocuments(function_result) ==
    IF "restaurants" \in DOMAIN function_result THEN function_result.restaurants
    ELSE IF "items" \in DOMAIN function_result THEN function_result.items
    ELSE <<>>

RECURSIVE SumOfChars(_)
SumOfChars(documents) ==
    IF documents = <<>> THEN 0
    ELSE documents[1].chars + SumOfChars(Tail(documents))

\* json.dumps(function_result): the braces around the characters of the
\* documents; the other fields of a dict count as one character.
json_dumps(function_result) ==
    LET n == 3 + SumOfChars(ListedDocuments(function_result))
    IN [i \in 1..n |-> IF i = 1 THEN "{" ELSE IF i = n THEN "}" ELSE "x"]

\* The body of the tool loop for one tool call: the function's result and
\* the content of the tool message.
ToolLoopBody(function_name, arguments, collection) ==
    LET returned == IF function_name = "list_restaurants"
                    THEN execute_list_restaurants(arguments, collection)
                    ELSE execute_get_restaurant_menu(arguments, collection)
        function_result == FormatToolResult(returned)
        result_json == json_dumps(function_result)
    IN [function_result |-> function_result,
        content |-> truncate_large_content(result_json, tool_content_max_length)]

DocumentCounts == {0, 1, max_restaurants, max_restaurants + 1, max_items,
                   max_items + 1, max_limit + 1, MaxDocuments}
DocumentChars == {1, MaxDocumentChars - 2, MaxDocumentChars - 1, MaxDocumentChars}

AskedLimits ==
    {PyInt(n) : n \in {0 - 1, 0, 1, max_restaurants + 1, max_limit, max_limit + 1,
                       MaxAskedLimit}}
        \cup {PyNone, PyStr(<<"5">>)}

ToolArguments(function_name) ==
    IF function_name = "list_restaurants"
    THEN {<<>>} \cup {[limit |-> l] : l \in AskedLimits}
                \cup {[limit |-> l, skip |-> 1] : l \in AskedLimits}
    ELSE {<<>>, [restaurant_id |-> 1], [restaurant_id |-> 2]}

InitTool ==
    /\ AgentAtRest
    /\ probe \in
        { [pc |-> "called", function_name |-> f, arguments |-> a,
           collection |-> Documents(count, chars),
           returned |-> NoResponse] :
          f \in {"list_restaurants", "get_restaurant_menu"},
          a \in ToolArguments("list_restaurants") \cup ToolArguments("get_restaurant_menu"),
          count \in DocumentCounts, chars \in DocumentChars }
    /\ probe.arguments \in ToolArguments(probe.function_name)

tool_loop_body ==
    /\ probe.pc = "called"
    /\ "function_name" \in DOMAIN probe
    /\ probe' = [probe EXCEPT
           !.pc = "appended",
           !.returned = ToolLoopBody(probe.function_name, probe.arguments,
                                     probe.collection)]
    /\ UNCHANGED agent_vars

NextTool == tool_loop_body

SpecTool == InitTool /\ [][NextTool]_vars

\* --------------------------------------------- properties: the tool results
ToolMessageAppended(function_name) ==
    /\ probe.pc = "appended"
    /\ "function_name" \in DOMAIN probe
    /\ probe.function_name = function_name

\* C22: the content of a tool message is at most 5000 characters and the
\* truncation marker; the list_restaurants tool asks the service for at most
\* 50 restaurants and returns at most 10; the get_restaurant_menu tool returns
\* at most 20 items.
C22_ToolResultsBounded ==
    /\ (probe.pc = "appended" /\ "function_name" \in DOMAIN probe) =>
          /\ Len(probe.returned.content)
                <= tool_content_max_length + Len(TruncationMarker)
          /\ Len(probe.returned.content) > tool_content_max_length =>
                /\ Len(json_dumps(probe.returned.function_result))
                      > tool_content_max_length
                /\ probe.returned.content =
                      SubSeq(json_dumps(probe.returned.function_result),
                             1, tool_content_max_length) \o TruncationMarker
    /\ ToolMessageAppended("list_restaurants") =>
          /\ Len(ListedDocuments(probe.returned.function_result)) <= 10
          /\ "limit" \in DOMAIN probe.returned.function_result =>
                probe.returned.function_result.limit <= 50
    /\ ToolMessageAppended("get_restaurant_menu") =>
          Len(ListedDocuments(probe.returned.function_result)) <= 20

\* A list of ten restaurants out of more was cut at 5000 characters.
C22_TenRestaurantsTruncated ==
    /\ ToolMessageAppended("list_restaurants")
    /\ Len(probe.collection) > 10
    /\ Len(probe.returned.function_result.restaurants) = 10
    /\ Len(probe.returned.content) = tool_content_max_length + Len(TruncationMarker)

\* ------------------------------------------------- properties: the secrets
\* A call of the delivery proxy has returned.
DoorDashReturned == probe.pc = "returned" /\ "credentials" \in DOMAIN probe

\* C23: a missing secret is answered 500 before any effect: without the
\* delivery credentials create and track send no request to the DoorDash API,
\* and without the model's API key the chat endpoint calls no model and
\* leaves the thread store as it was.
C23_MissingSecretBeforeAnyEffect ==
    /\ (DoorDashReturned /\ ~probe.credentials) =>
          /\ probe.returned.status_code = 500
          /\ probe.returned.detail = [text |-> "Missing required DoorDash credentials"]
          /\ probe.requests = 0
    /\ ~api_key =>
          /\ conversation_threads = << >>
          /\ \A r \in Requests :
                /\ frame[r].pc \in {"idle", "failed"}
                /\ frame[r].pc = "failed" =>
                      /\ response[r] =
                            [status_code |-> 500, detail |-> "OPEN_AI_API_KEY not found"]
                      /\ "model_calls" \notin DOMAIN frame[r]
                      /\ "thread_id" \notin DOMAIN frame[r]

\* Both have been answered 500 for their missing secret.
C23_BothSecretsMissing ==
    /\ DoorDashReturned
    /\ ~probe.credentials
    /\ probe.upstream.kind = "response"
    /\ probe.requests = 0
    /\ ~api_key
    /\ \E r \in Requests : frame[r].pc = "failed" /\ response[r].status_code = 500

\* --------------------------------------- properties: the stored histories
\* The tool message at position i of the list follows the assistant message
\* whose tool calls hold its id.
FollowsItsCall(msgs, i) ==
    \E j \in 1..(i - 1) :
        /\ msgs[j].role = "assistant"
        /\ \E k \in 1..Len(GetToolCalls(msgs[j])) :
              GetToolCalls(msgs[j])[k].id = msgs[i].tool_call_id

\* C24: in every stored history, each tool message is preceded by the
\* assistant message that requested it; trimming to the window of 20 leaves
\* no tool result without its request.
C24_ToolMessagesFollowTheirCall ==
    \A tid \in DOMAIN conversation_threads :
        \A i \in 1..Len(conversation_threads[tid]) :
            conversation_threads[tid][i].role = "tool" =>
                FollowsItsCall(conversation_threads[tid], i)

\* The same for the histories shorter than the window, which no trim has
\* cut.
C24_UntrimmedHistoriesAreWhole ==
    \A tid \in DOMAIN conversation_threads :
        Len(conversation_threads[tid]) < max_messages =>
            \A i \in 1..Len(conversation_threads[tid]) :
                conversation_threads[tid][i].role = "tool" =>
                    FollowsItsCall(conversation_threads[tid], i)

\* The texts of the assistant messages the model produced in the turn.
TextsOfTurn(f) ==
    {GetText(f.messages[i]) : i \in {j \in OfTurn(f) : f.messages[j].role = "assistant"}}

\* C25: the text a turn answers with is the content of an assistant message
\* the model produced in that turn, or the generic failure message; it is
\* never the text of an assistant message of an earlier turn.
C25_AnswerIsOfTheTurn ==
    \A r \in Handled :
        frame[r].pc = "done" =>
            \/ response[r].response = GenericFailure
            \/ /\ response[r].response \in TextsOfTurn(frame[r])
               /\ response[r].response[1] = frame[r].turn

\* The same for the turns in which the model produced a text: the answer is
\* a text of the turn.
C25_AnswerOfATurnWithText ==
    \A r \in Handled :
        (frame[r].pc = "done" /\ \E text \in TextsOfTurn(frame[r]) : Truthy(text)) =>
            /\ response[r].response \in TextsOfTurn(frame[r])
            /\ response[r].response[1] = frame[r].turn

\* The turns that ended because the call of the model raised.
FailedOnModel == {r \in Handled : frame[r].pc = "failed" /\ frame[r].cause = "model"}

\* The last 20 messages of the history the request found.
TrimmedPrior(f) ==
    IF Len(f.prior) <= 20 THEN f.prior
    ELSE SubSeq(f.prior, Len(f.prior) - 19, Len(f.prior))

\* C26: a turn in which the call of the model fails ends with a 500, and the
\* stored history of its thread is the trimmed history the request found
\* followed by the new user message: no assistant or tool message of the
\* failed turn is stored and the user message stays.
C26_FailedTurnKeepsUserMessage ==
    \A r \in FailedOnModel :
        LET f == frame[r]
            stored == conversation_threads[f.thread_id]
        IN /\ response[r] =
                 [status_code |-> 500, detail |-> "Error communicating with OpenAI API"]
           /\ stored = Append(TrimmedPrior(f),
                              [role |-> "user", content |-> [text |-> f.request.prompt]])
           /\ \A i \in OfTurn(f) : \A j \in 1..Len(stored) : stored[j] # f.messages[i]

\* The model failed after a round of tool calls, on a thread with a history.
C26_FailedAfterAToolRound ==
    \E r \in FailedOnModel :
        /\ frame[r].prior # <<>>
        /\ frame[r].model_calls >= 2
        /\ frame[r].tool_log # <<>>
        /\ response[r].status_code = 500

\* The thread id of the turn that takes the step: the one the request names,
\* or the generated one.
ActingOn(tid) ==
    \E r \in Requests :
        /\ frame'[r] # frame[r]
        /\ "thread_id" \in DOMAIN frame'[r]
        /\ frame'[r].thread_id = tid
        /\ frame'[r].request.thread_id \in {None, tid}

\* C29: a step of a chat turn on one thread id, in a turn that completes or
\* fails, leaves the stored history of every other thread as it was: no
\* other thread is created, changed or removed.
C29_OtherThreadsUnchanged ==
    [][/\ DOMAIN conversation_threads \subseteq DOMAIN conversation_threads'
       /\ \A tid \in DOMAIN conversation_threads' :
             (\/ tid \notin DOMAIN conversation_threads
              \/ conversation_threads'[tid] # conversation_threads[tid])
                => ActingOn(tid)]_vars

\* A turn has completed or failed on one thread while another thread holds
\* the history of the turn before.
C29_TurnBesideAnotherThread ==
    \E r \in Handled : \E other \in DOMAIN conversation_threads :
        /\ frame[r].pc \in {"done", "failed"}
        /\ frame[r].turn = 2
        /\ other # frame[r].thread_id
        /\ conversation_threads[other] # <<>>
        /\ \A i \in 1..Len(conversation_threads[other]) :
              conversation_threads[other][i].role = "assistant" =>
                  GetText(conversation_threads[other][i])[1] = 1

\* C30: no stored history ever holds a system message: the system prompt is
\* in the message list sent to the model only, and is filtered out before the
\* history is written back.
C30_NoSystemMessageStored ==
    \A tid \in DOMAIN conversation_threads :
        \A i \in 1..Len(conversation_threads[tid]) :
            conversation_threads[tid][i].role # "system"

\* A first turn whose message list held the system prompt has been written
\* back without it.
C30_FirstTurnWrittenBack ==
    \E r \in Handled :
        /\ frame[r].pc = "done"
        /\ frame[r].messages[1] = system_message
        /\ frame[r].sent_system
        /\ Len(conversation_threads[frame[r].thread_id]) = Len(frame[r].messages) - 1

====
